---- MODULE Spec2Model ----
(***************************************************************************)
(* Perfolizer agent: the control plane (Server: /run, /stop, /metrics),    *)
(* the run goroutine with its thread-group workers, and the stats          *)
(* aggregator (StatsRunner) with its report loop.                          *)
(*                                                                         *)
(* A run is identified by its ordinal 1..MaxRuns.  The context, the cancel *)
(* function and the aggregator that Server.Start creates for a run are     *)
(* identified by the same ordinal; 0 stands for nil.                       *)
(* Durations are counted in half-milliseconds, so that                     *)
(* time.Duration.Milliseconds() truncates.                                 *)
(***************************************************************************)
EXTENDS Integers, Sequences, FiniteSets, TLC

\* ---- bounds of the model ------------------------------------------------
MaxRuns == 2
MaxUsers == 1
\* workers of a thread group started on its own, and its iterations
MaxWorkers == 2
MaxIterations == 2
\* ticks over which requests are observed
MaxTime == 3
\* length of a text given to Context.Substitute
MaxLen == 5

\* ---- program constants ---------------------------------------------------
StatusOK == 200
StatusAccepted == 202
StatusBadRequest == 400
StatusConflict == 409
ReportIntervalSeconds == 1
UnitsPerMillisecond == 2
Nil == 0
\* Iterations = -1: iterate until cancelled
Infinite == -1
\* ticks of the model clock per second (the unit of rate.Limit is 1/s)
TicksPerSecond == 10
\* waitStep of the ramp-up loop of a profile block: 100 ms
RampWaitStep == 1
\* profileScale and ProfilePercent are counted in hundredths
Hundred == 100

Runs == 1..MaxRuns

TotalKey == "Total"
SamplerNames == {"s", "Total"}
Durations == {1, 3}

\* plan names as character sequences; UnnamedPlan stands for "unnamed-plan"
Space == " "
UnnamedPlan == <<"unnamed-plan">>
EmptyName == <<>>

\* children of the thread group
Pause == [kind |-> "PauseController", name |-> "pause"]
Sampler(n) == [kind |-> "HttpSampler", name |-> n]

\* request bodies of /run: a plan DTO whose root is a TestPlan with one
\* SimpleThreadGroup, or a DTO with an unregistered root type
RootTypes == {"TestPlan"}
Malformed == [type |-> "Unknown", name |-> <<>>, users |-> 0, iterations |-> 0,
              children |-> <<>>]
NoGroup == [users |-> 0, iterations |-> 0, children |-> <<>>]

\* plan.GetChildren(): the thread group under the root
GroupOf(plan) == [users |-> plan.users, iterations |-> plan.iterations,
                  children |-> plan.children]
PausePlans ==
    {[type |-> "TestPlan", name |-> <<Space>>, users |-> 0, iterations |-> 1,
      children |-> <<Pause>>],
     [type |-> "TestPlan", name |-> <<"p">>, users |-> 1, iterations |-> 1,
      children |-> <<Pause>>]}
SamplerPlans == [type : RootTypes, name : {<<"p">>}, users : 1..MaxUsers,
                 iterations : {1},
                 children : {<<Sampler("s")>>, <<Sampler("s"), Sampler("Total")>>}]

\* what the clients of the control plane send, and how many runs they start
ControlClients == [bodies |-> {Malformed} \cup PausePlans, runs |-> MaxRuns]
\* Start builds a fresh aggregator for every run and runs share no aggregator
\* state, so the aggregator is followed through the first run of a client
StatsClients == [bodies |-> SamplerPlans, runs |-> 1]
\* a client whose plans start a thread group that has to return
FairClients == [bodies |-> {p \in PausePlans : p.users > 0}, runs |-> MaxRuns]

\* core.ReadTestPlan returns an error
ReadTestPlanFails(body) == body.type \notin RootTypes

VARIABLES
    running,          \* Server.running
    cancel,           \* Server.cancel: run whose context it cancels, or Nil
    stats,            \* Server.stats: run whose aggregator it is, or Nil
    currentPlanName,  \* Server.currentPlanName
    ctxDone,          \* per run: the run's context has been cancelled
    runPc,            \* per run: position of the goroutine started by Start
    planOf,           \* per run: the thread group of the plan, held by the run goroutine
    workers,          \* per run: the thread-group workers (pc, iter, child)
    agg,              \* per run: the StatsRunner created by Start
    stopPc,           \* per run: a Stop call between its unlock and its cancel()
    lastResp,         \* the last HTTP response written by a handler
    clients,          \* the requests the environment makes
    hist              \* history: what was reported and published, per run

\* a thread group started on its own: ThreadGroup.Start(ctx, runner)
VARIABLES
    tg,               \* the thread group whose Start is running
    parentDone,       \* the ctx passed to Start has been cancelled
    starter,          \* the goroutine inside Start: position, loop index, WaitGroup counter
    threads,          \* per worker: position, iteration, child
    limiters,         \* the rate limiters, by owner (worker or shared store) and child
    groupDone,        \* RPSThreadGroup: groupCtx has been cancelled
    stopRequested,    \* RPSThreadGroup: the stopRequested channel is closed
    profileScale,     \* RPSThreadGroup: the atomic profileScale, in hundredths
    driver,           \* RPSThreadGroup: the profile driver goroutine
    obs               \* history: executions, requests and elapsed time

\* a test plan on its way through the persistence functions
VARIABLES
    doc

\* a single call of a function of the program: its arguments and its result
VARIABLES
    call

groupVars == <<tg, parentDone, starter, threads, limiters, groupDone, stopRequested,
               profileScale, driver, obs>>

docVars == <<doc, call>>

vars == <<running, cancel, stats, currentPlanName, ctxDone, runPc, planOf,
          workers, agg, stopPc, lastResp, clients, hist, groupVars, docVars>>

serverVars == <<running, cancel, stats, currentPlanName>>

\* ---- helpers -------------------------------------------------------------
RECURSIVE SumOver(_, _)
SumOver(S, f) ==
    IF S = {} THEN 0
    ELSE LET x == CHOOSE y \in S : TRUE IN f[x] + SumOver(S \ {x}, f)

RECURSIVE TrimLeft(_)
TrimLeft(s) ==
    IF Len(s) > 0 /\ Head(s) = Space THEN TrimLeft(Tail(s)) ELSE s

RECURSIVE TrimRight(_)
TrimRight(s) ==
    IF Len(s) > 0 /\ s[Len(s)] = Space THEN TrimRight(SubSeq(s, 1, Len(s) - 1)) ELSE s

TrimSpace(s) == TrimRight(TrimLeft(s))

PlanNameOf(plan) ==
    IF TrimSpace(plan.name) = EmptyName THEN UnnamedPlan ELSE TrimSpace(plan.name)

Milliseconds(d) == d \div UnitsPerMillisecond

Ratio(n, d) == [num |-> n, den |-> d]

ZeroMetric == [RPS |-> Ratio(0, 1), AvgLatency |-> Ratio(0, 1), Errors |-> 0,
               TotalRequests |-> 0, TotalErrors |-> 0]

ZeroMap == [n \in SamplerNames |-> 0]

\* ---- StatsRunner ---------------------------------------------------------
NewStatsRunner ==
    [intervalCounts |-> ZeroMap, intervalErrors |-> ZeroMap, intervalLatSum |-> ZeroMap,
     totalCounts |-> ZeroMap, totalErrors |-> ZeroMap, totalLatSum |-> ZeroMap,
     knownSamplers |-> {},
     latest |-> [k \in {TotalKey} |-> ZeroMetric],
     loop |-> TRUE]

NoStatsRunner ==
    [intervalCounts |-> ZeroMap, intervalErrors |-> ZeroMap, intervalLatSum |-> ZeroMap,
     totalCounts |-> ZeroMap, totalErrors |-> ZeroMap, totalLatSum |-> ZeroMap,
     knownSamplers |-> {},
     latest |-> [k \in {TotalKey} |-> ZeroMetric],
     loop |-> FALSE]

Bump(m, name, by) == [m EXCEPT ![name] = @ + by]

ReportResult(sr, result) ==
    LET name == result.SamplerName
        failed == ~result.Success \/ result.Error
        counted == [sr EXCEPT
                      !.knownSamplers = @ \cup {name},
                      !.intervalCounts = Bump(@, name, 1),
                      !.intervalLatSum = Bump(@, name, result.Duration),
                      !.totalCounts = Bump(@, name, 1),
                      !.totalLatSum = Bump(@, name, result.Duration)]
    IN IF failed
       THEN [counted EXCEPT !.intervalErrors = Bump(@, name, 1),
                            !.totalErrors = Bump(@, name, 1)]
       ELSE counted

AvgOf(latSum, count) ==
    IF count > 0 THEN Ratio(Milliseconds(latSum), count) ELSE Ratio(0, 1)

SamplerMetric(sr, sampler) ==
    [RPS |-> Ratio(sr.intervalCounts[sampler], ReportIntervalSeconds),
     AvgLatency |-> AvgOf(sr.intervalLatSum[sampler], sr.intervalCounts[sampler]),
     Errors |-> sr.intervalErrors[sampler],
     TotalRequests |-> sr.totalCounts[sampler],
     TotalErrors |-> sr.totalErrors[sampler]]

TotalMetric(sr) ==
    LET known == sr.knownSamplers
        totalIntervalCount == SumOver(known, sr.intervalCounts)
        totalIntervalLatSum == SumOver(known, sr.intervalLatSum)
    IN [RPS |-> Ratio(totalIntervalCount, ReportIntervalSeconds),
        AvgLatency |-> AvgOf(totalIntervalLatSum, totalIntervalCount),
        Errors |-> SumOver(known, sr.intervalErrors),
        TotalRequests |-> SumOver(known, sr.totalCounts),
        TotalErrors |-> SumOver(known, sr.totalErrors)]

IntervalData(sr) ==
    [k \in sr.knownSamplers \cup {TotalKey} |->
        IF k = TotalKey THEN TotalMetric(sr) ELSE SamplerMetric(sr, k)]

\* publishIntervalSnapshot that keeps the interval counters
publishKeepsInterval(sr) == [sr EXCEPT !.latest = IntervalData(sr)]

publishIntervalSnapshot(sr) ==
    [sr EXCEPT !.latest = IntervalData(sr),
               !.intervalCounts = ZeroMap,
               !.intervalErrors = ZeroMap,
               !.intervalLatSum = ZeroMap]

StatsSnapshot(sr) ==
    [k \in DOMAIN sr.latest \cup {TotalKey} |->
        IF k \in DOMAIN sr.latest THEN sr.latest[k] ELSE ZeroMetric]

\* ---- Prometheus rendering ------------------------------------------------
\* sort.Strings orders byte-wise: upper-case letters before lower-case ones
NameRank(n) == IF n = "Total" THEN 1 ELSE 2

RECURSIVE SortStrings(_)
SortStrings(S) ==
    IF S = {} THEN <<>>
    ELSE LET m == CHOOSE x \in S : \A y \in S : NameRank(x) <= NameRank(y)
         IN <<m>> \o SortStrings(S \ {m})

Quote(n) == <<"\"", n, "\"">>

\* fmt's %.6f of num/den (non-negative), rounded to the nearest millionth
FormatFloat6(q) ==
    LET scaled == (2 * 1000000 * q.num + q.den) \div (2 * q.den)
    IN [int |-> scaled \div 1000000, frac |-> scaled % 1000000]

MetricLines(snapshot, sampler) ==
    [label |-> Quote(sampler),
     perfolizer_rps |-> FormatFloat6(snapshot[sampler].RPS),
     perfolizer_avg_response_time_ms |-> FormatFloat6(snapshot[sampler].AvgLatency),
     perfolizer_errors |-> snapshot[sampler].Errors,
     perfolizer_requests_total |-> snapshot[sampler].TotalRequests,
     perfolizer_errors_total |-> snapshot[sampler].TotalErrors]

renderPrometheusMetrics(isRunning, snapshot) ==
    LET samplers == SortStrings(DOMAIN snapshot)
    IN [served |-> TRUE,
        perfolizer_test_running |-> IF isRunning THEN 1 ELSE 0,
        samplers |-> [i \in 1..Len(samplers) |-> MetricLines(snapshot, samplers[i])]]

\* ---- Server --------------------------------------------------------------
\* Server.Snapshot that answers an empty map while no aggregator is stored
ServerSnapshotEmptyWhenIdle ==
    IF stats = Nil
    THEN [isRunning |-> running, snapshot |-> [k \in {} |-> ZeroMetric]]
    ELSE [isRunning |-> running, snapshot |-> StatsSnapshot(agg[stats])]

ServerSnapshot ==
    IF stats = Nil
    THEN [isRunning |-> running, snapshot |-> [k \in {TotalKey} |-> ZeroMetric]]
    ELSE [isRunning |-> running, snapshot |-> StatsSnapshot(agg[stats])]

UnusedRuns == {r \in Runs : runPc[r] = "unused"}
NextRun == CHOOSE r \in UnusedRuns : \A q \in UnusedRuns : r <= q

ZeroTally == [count |-> ZeroMap, errors |-> ZeroMap, lat |-> ZeroMap]
NoHist == [reported |-> 0, window |-> ZeroTally, lastWindow |-> ZeroTally,
           published |-> 0, stopped |-> FALSE, name |-> EmptyName]

SpawnWorkers(plan) ==
    [w \in 1..plan.users |-> [pc |-> "check", iter |-> 0, child |-> 1]]

\* Server.Start without the test of s.running
StartNoCheck(plan, code) ==
    /\ code = StatusAccepted
    /\ UnusedRuns # {}
    /\ NextRun <= clients.runs
    /\ LET r == NextRun IN
         /\ agg' = [agg EXCEPT ![r] = NewStatsRunner]
         /\ stats' = r
         /\ running' = TRUE
         /\ cancel' = r
         /\ currentPlanName' = PlanNameOf(plan)
         /\ runPc' = [runPc EXCEPT ![r] = "runPlan"]
         /\ planOf' = [planOf EXCEPT ![r] = GroupOf(plan)]
         /\ workers' = [workers EXCEPT ![r] = SpawnWorkers(plan)]
         /\ hist' = [hist EXCEPT !.stopQuiet = FALSE,
                                 !.overtaken = {q \in Runs : stopPc[q]},
                                    !.late = FALSE,
                                 !.run[r].name = PlanNameOf(plan)]
    /\ UNCHANGED ctxDone

\* Server.Start: the critical section, the spawn of the run goroutine and
\* the returned error (nil is reported as StatusAccepted by handleRun)
Start(plan, code) ==
    \/ /\ running
       /\ code = StatusConflict
       /\ UNCHANGED <<serverVars, ctxDone, runPc, planOf, workers, agg, hist>>
    \/ /\ ~running
       /\ code = StatusAccepted
       /\ UnusedRuns # {}
       /\ NextRun <= clients.runs
       /\ LET r == NextRun IN
            /\ agg' = [agg EXCEPT ![r] = NewStatsRunner]
            /\ stats' = r
            /\ running' = TRUE
            /\ cancel' = r
            /\ currentPlanName' = PlanNameOf(plan)
            /\ runPc' = [runPc EXCEPT ![r] = "runPlan"]
            /\ planOf' = [planOf EXCEPT ![r] = GroupOf(plan)]
            /\ workers' = [workers EXCEPT ![r] = SpawnWorkers(plan)]
            /\ hist' = [hist EXCEPT !.stopQuiet = FALSE,
                                    !.overtaken = {q \in Runs : stopPc[q]},
                                    !.late = FALSE,
                                    !.run[r].name = PlanNameOf(plan)]
       /\ UNCHANGED ctxDone

\* POST /run
HandleRun(body) ==
    \/ /\ ReadTestPlanFails(body)
       /\ lastResp' = [op |-> "run", code |-> StatusBadRequest]
       /\ UNCHANGED <<serverVars, ctxDone, runPc, planOf, workers, agg, hist,
                      stopPc, clients, groupVars, docVars>>
    \/ /\ ~ReadTestPlanFails(body)
       /\ \E code \in {StatusAccepted, StatusConflict} :
            /\ Start(body, code)
            /\ lastResp' = [op |-> "run", code |-> code]
       /\ UNCHANGED <<stopPc, clients, groupVars, docVars>>

\* Server.Stop that leaves s.running as it is
StopLockedKeepsRunning ==
    /\ cancel' = Nil
    /\ currentPlanName' = EmptyName
    /\ UNCHANGED <<running, stats, ctxDone, runPc, planOf, workers, agg, clients, groupVars, docVars>>
    /\ IF cancel # Nil
       THEN /\ stopPc' = [stopPc EXCEPT ![cancel] = TRUE]
            /\ hist' = [hist EXCEPT !.run[cancel].stopped = TRUE,
                                    !.overtaken = @ \ {cancel},
                                    !.freedBy = IF running THEN "stop" ELSE @]
            /\ UNCHANGED lastResp
       ELSE /\ lastResp' = [op |-> "stop", code |-> StatusOK]
            /\ hist' = [hist EXCEPT !.stopQuiet = TRUE]
            /\ UNCHANGED stopPc

\* Server.Stop up to its unlock; handleStop's response follows cancel()
StopLocked ==
    /\ running' = FALSE
    /\ cancel' = Nil
    /\ currentPlanName' = EmptyName
    /\ UNCHANGED <<stats, ctxDone, runPc, planOf, workers, agg, clients, groupVars, docVars>>
    /\ IF cancel # Nil
       THEN /\ stopPc' = [stopPc EXCEPT ![cancel] = TRUE]
            /\ hist' = [hist EXCEPT !.run[cancel].stopped = TRUE,
                                    !.overtaken = @ \ {cancel},
                                    !.freedBy = IF running THEN "stop" ELSE @]
            /\ UNCHANGED lastResp
       ELSE /\ lastResp' = [op |-> "stop", code |-> StatusOK]
            /\ hist' = [hist EXCEPT !.stopQuiet = TRUE]
            /\ UNCHANGED stopPc

\* Server.Stop after its unlock: cancel() of the captured function, then
\* handleStop writes 200
StopCancel(r) ==
    /\ stopPc[r]
    /\ stopPc' = [stopPc EXCEPT ![r] = FALSE]
    /\ ctxDone' = [ctxDone EXCEPT ![r] = TRUE]
    /\ lastResp' = [op |-> "stop", code |-> StatusOK]
    /\ hist' = [hist EXCEPT !.stopQuiet = @ \/ r \notin hist.overtaken,
                            !.overtaken = @ \ {r}]
    /\ UNCHANGED <<serverVars, runPc, planOf, workers, agg, clients, groupVars, docVars>>

\* setStopped that does nothing
setStoppedSkipped(r) == UNCHANGED serverVars

\* setStopped without the comparison of s.stats with its argument
setStoppedAlways(r) ==
    /\ running' = FALSE
    /\ cancel' = Nil
    /\ currentPlanName' = EmptyName
    /\ UNCHANGED stats

\* setStopped that also drops the aggregator it recognised
setStoppedClearsStats(r) ==
    IF stats = r
    THEN /\ running' = FALSE
         /\ cancel' = Nil
         /\ currentPlanName' = EmptyName
         /\ stats' = Nil
    ELSE UNCHANGED serverVars

\* Server.setStopped(stats), called by the run goroutine with its own aggregator
setStopped(r) ==
    IF stats = r
    THEN /\ running' = FALSE
         /\ cancel' = Nil
         /\ currentPlanName' = EmptyName
         /\ UNCHANGED stats
    ELSE UNCHANGED serverVars

\* GET /metrics
\* body of the response of GET /metrics in the current state
MetricsBody == renderPrometheusMetrics(ServerSnapshot.isRunning, ServerSnapshot.snapshot)

\* GET /metrics
HandleMetrics ==
    /\ lastResp' = [op |-> "metrics", code |-> StatusOK]
    /\ UNCHANGED <<serverVars, ctxDone, runPc, planOf, workers, agg, stopPc, clients, groupVars, docVars,
                   hist>>

\* ---- run goroutine, thread-group workers, report loop --------------------
Outcomes == {[Success |-> TRUE, Error |-> FALSE],
             [Success |-> FALSE, Error |-> FALSE],
             [Success |-> FALSE, Error |-> TRUE]}

Tally(t, result) ==
    [count |-> Bump(t.count, result.SamplerName, 1),
     errors |-> Bump(t.errors, result.SamplerName,
                     IF result.Success /\ ~result.Error THEN 0 ELSE 1),
     lat |-> Bump(t.lat, result.SamplerName, result.Duration)]

\* top of the worker's iteration loop in SimpleThreadGroup.Start
WorkerCheck(r, w) ==
    /\ runPc[r] = "runPlan"
    /\ w \in DOMAIN workers[r]
    /\ workers[r][w].pc = "check"
    /\ workers' = [workers EXCEPT ![r][w] =
                     IF @.iter >= planOf[r].iterations \/ ctxDone[r]
                     THEN [@ EXCEPT !.pc = "returned"]
                     ELSE [@ EXCEPT !.pc = "exec", !.child = 1]]
    /\ UNCHANGED <<serverVars, ctxDone, runPc, planOf, agg, stopPc, lastResp,
                   clients, groupVars, docVars, hist>>

\* the worker after exec.Execute returned err for its current child
AfterChild(r, wk, err) ==
    IF err /\ ctxDone[r] THEN [wk EXCEPT !.pc = "returned"]
    ELSE IF wk.child < Len(planOf[r].children) THEN [wk EXCEPT !.child = @ + 1]
    ELSE [wk EXCEPT !.pc = "check", !.iter = @ + 1]

\* the errors PauseController.Execute can return: nil when the timer fires,
\* ctx.Err() when the context is done
PauseErrors(r) == IF ctxDone[r] THEN {FALSE, TRUE} ELSE {FALSE}

\* exec.Execute(tCtx) of the worker's current child.  HttpSampler.Execute:
\* the request ends (with a response or a transport error), the result goes
\* to the run's aggregator and nil is returned.
WorkerExecute(r, w) ==
    /\ runPc[r] = "runPlan"
    /\ w \in DOMAIN workers[r]
    /\ workers[r][w].pc = "exec"
    /\ LET wk == workers[r][w]
           child == planOf[r].children[wk.child]
       IN IF child.kind = "HttpSampler"
          THEN \E o \in Outcomes, d \in Durations :
                 LET result == [SamplerName |-> child.name, Success |-> o.Success,
                                Error |-> o.Error, Duration |-> d]
                 IN /\ agg' = [agg EXCEPT ![r] = ReportResult(@, result)]
                    /\ hist' = [hist EXCEPT !.run[r].reported = @ + 1,
                                            !.run[r].window = Tally(@, result)]
                    /\ workers' = [workers EXCEPT ![r][w] = AfterChild(r, wk, FALSE)]
          ELSE \E err \in PauseErrors(r) :
                    /\ workers' = [workers EXCEPT ![r][w] = AfterChild(r, wk, err)]
                    /\ UNCHANGED <<agg, hist>>
    /\ UNCHANGED <<serverVars, ctxDone, runPc, planOf, stopPc, lastResp, clients, groupVars, docVars>>

AllWorkersReturned(r) ==
    \A w \in DOMAIN workers[r] : workers[r][w].pc = "returned"

\* run goroutine of Server.Start: runPlan has returned, cancel() is called
RunPlanDone(r) ==
    /\ runPc[r] = "runPlan"
    /\ AllWorkersReturned(r)
    /\ runPc' = [runPc EXCEPT ![r] = "setStopped"]
    /\ ctxDone' = [ctxDone EXCEPT ![r] = TRUE]
    /\ UNCHANGED <<serverVars, planOf, workers, agg, stopPc, lastResp, clients, groupVars, docVars, hist>>

\* run goroutine of Server.Start: s.setStopped(stats); the goroutine ends and
\* what it held of the plan is dropped
RunSetStopped(r) ==
    /\ runPc[r] = "setStopped"
    /\ setStopped(r)
    /\ runPc' = [runPc EXCEPT ![r] = "exited"]
    /\ planOf' = [planOf EXCEPT ![r] = NoGroup]
    /\ workers' = [workers EXCEPT ![r] = <<>>]
    /\ hist' = [hist EXCEPT !.run[r].name = EmptyName,
                            !.run[r].stopped = FALSE,
                            !.late = (stats # r),
                            !.freedBy = IF stats = r /\ running THEN "completion" ELSE @]
    /\ UNCHANGED <<ctxDone, agg, stopPc, lastResp, clients, groupVars, docVars>>

\* StatsRunner.reportLoop: the ticker fires
Tick(r) ==
    /\ agg[r].loop
    /\ agg' = [agg EXCEPT ![r] = publishIntervalSnapshot(@)]
    /\ hist' = [hist EXCEPT
                  !.run[r].lastWindow = hist.run[r].window,
                  !.run[r].window = ZeroTally,
                  !.run[r].published = @ + IntervalData(agg[r])[TotalKey].RPS.num]
    /\ UNCHANGED <<serverVars, ctxDone, runPc, planOf, workers, stopPc, lastResp,
                   clients, groupVars, docVars>>

\* StatsRunner.reportLoop: ctx.Done() is selected, the loop returns
LoopExit(r) ==
    /\ agg[r].loop
    /\ ctxDone[r]
    /\ agg' = [agg EXCEPT ![r].loop = FALSE]
    /\ UNCHANGED <<serverVars, ctxDone, runPc, planOf, workers, stopPc, lastResp,
                   clients, groupVars, docVars, hist>>

\* ---- specifications ------------------------------------------------------
\* ---- a thread group on its own --------------------------------------------
\* a child of a thread group: TargetRPS in requests per second; bad: the
\* sampler's method or url makes http.NewRequest fail
Child(kind, enabled, rps, bad) ==
    [kind |-> kind, enabled |-> enabled, TargetRPS |-> rps, bad |-> bad]

\* the element types with an Execute method (core.Executable)
Executable(child) == child.kind \in {"HttpSampler", "PauseController"}

PauseChild == Child("PauseController", TRUE, 0, FALSE)
DisabledChild == Child("PauseController", FALSE, 0, FALSE)
\* a nested thread group has Start, not Execute
NestedGroup == Child("SimpleThreadGroup", TRUE, 0, FALSE)
PlainSampler == Child("HttpSampler", TRUE, 0, FALSE)
BadSampler == Child("HttpSampler", TRUE, 0, TRUE)
LimitedSampler == Child("HttpSampler", TRUE, 5, FALSE)

NoThreadGroup ==
    [kind |-> "none", Users |-> 0, Iterations |-> 0, RampUp |-> 0, RPS |-> 0,
     ProfileBlocks |-> <<>>, GracefulShutdown |-> 0, children |-> <<>>]

SimpleThreadGroup(users, iterations, rampUp, children) ==
    [kind |-> "SimpleThreadGroup", Users |-> users, Iterations |-> iterations,
     RampUp |-> rampUp, RPS |-> 0, ProfileBlocks |-> <<>>, GracefulShutdown |-> 0,
     children |-> children]

SimpleChildLists ==
    {<<BadSampler, PauseChild>>, <<DisabledChild, PauseChild>>,
     <<NestedGroup, BadSampler>>, <<PlainSampler, PauseChild>>}

\* the groups of the iteration count: no rate limit, so that only the code
\* decides how often a child runs
SimpleGroups ==
    {SimpleThreadGroup(u, k, r, c) :
        u \in 1..MaxWorkers, k \in {Infinite, 0, MaxIterations}, r \in {0, MaxWorkers},
        c \in SimpleChildLists}

Workers == 1..MaxWorkers
\* owner of a limiter: a worker's context, or the shared store (0)
SharedStore == 0
Owners == {SharedStore} \cup Workers
MaxChildren == 2
ChildIndex == 1..MaxChildren

\* rampStep of SimpleThreadGroup.Start
RampStep(g) ==
    IF g.Users > 1 /\ g.RampUp > 0 THEN g.RampUp \div (g.Users - 1) ELSE 0

NoThread == [pc |-> "unstarted", iter |-> 0, child |-> 0]
\* one token, in units of 1/(Hundred * TicksPerSecond) token
Burst == Hundred * TicksPerSecond
\* steady: the limit is the one the limiter was created with
NoLimiter == [made |-> FALSE, limit |-> 0, tokens |-> 0, steady |-> TRUE]
\* counters stop one above the largest count a finite group can reach
CountCap == MaxWorkers * MaxIterations + 1
NoObs ==
    [execs |-> [c \in ChildIndex |-> 0],
     requests |-> [o \in Owners |-> [c \in ChildIndex |-> 0]],
     watch |-> FALSE, elapsed |-> 0, sinceStop |-> 0, atZero |-> {}]
NoDriver == [pc |-> "none", block |-> 0, timer |-> 0, since |-> 0, currentScale |-> 0]
NoDoc == [stage |-> "none"]

\* no thread group has been started on its own
GroupIdle ==
    /\ tg = NoThreadGroup
    /\ parentDone = FALSE
    /\ starter = [pc |-> "none", i |-> 0, wg |-> 0]
    /\ threads = [w \in Workers |-> NoThread]
    /\ limiters = [o \in Owners |-> [c \in ChildIndex |-> NoLimiter]]
    /\ groupDone = FALSE
    /\ stopRequested = FALSE
    /\ profileScale = Hundred
    /\ driver = NoDriver
    /\ obs = NoObs

NoCall == [fn |-> "none"]

DocIdle == doc = NoDoc /\ call = NoCall

InitWith(c) ==
    /\ running = FALSE
    /\ cancel = Nil
    /\ stats = Nil
    /\ currentPlanName = EmptyName
    /\ ctxDone = [r \in Runs |-> FALSE]
    /\ runPc = [r \in Runs |-> "unused"]
    /\ planOf = [r \in Runs |-> NoGroup]
    /\ workers = [r \in Runs |-> <<>>]
    /\ agg = [r \in Runs |-> NoStatsRunner]
    /\ stopPc = [r \in Runs |-> FALSE]
    /\ lastResp = [op |-> "none", code |-> 0]
    /\ clients = c
    /\ hist = [run |-> [r \in Runs |-> NoHist], stopQuiet |-> FALSE, overtaken |-> {},
               late |-> FALSE, freedBy |-> "none"]

Init == InitWith(ControlClients) /\ GroupIdle /\ DocIdle

StatsInit == InitWith(StatsClients) /\ GroupIdle /\ DocIdle

FairInit == InitWith(FairClients) /\ GroupIdle /\ DocIdle

Next ==
    \/ \E body \in clients.bodies : HandleRun(body)
    \/ StopLocked
    \/ \E r \in Runs : StopCancel(r)
    \/ HandleMetrics
    \/ \E r \in Runs, w \in 1..MaxUsers : WorkerCheck(r, w)
    \/ \E r \in Runs, w \in 1..MaxUsers : WorkerExecute(r, w)
    \/ \E r \in Runs : RunPlanDone(r)
    \/ \E r \in Runs : RunSetStopped(r)
    \/ \E r \in Runs : Tick(r)
    \/ \E r \in Runs : LoopExit(r)

\* the control plane under clients that send pause plans and malformed bodies
Spec == Init /\ [][Next]_vars

\* the aggregator under clients that send sampler plans
StatsSpec == StatsInit /\ [][Next]_vars

\* the scheduler runs the goroutine that Server.Start spawned
FairSpec ==
    FairInit /\ [][Next]_vars /\ \A r \in Runs : WF_vars(RunPlanDone(r)) /\ WF_vars(RunSetStopped(r))

\* ---- control plane: single-run exclusion ---------------------------------
Active(r) == runPc[r] \in {"runPlan", "setStopped"}

\* C1: a /run handled while running is true is not accepted: it is answered
\* 409 when its plan decodes (400 otherwise) and it leaves the running flag,
\* the cancel function, the aggregator and every run as they were.
C1_RunWhileRunningRejected ==
    [][\A body \in clients.bodies :
          (running /\ HandleRun(body)) =>
              /\ lastResp'.op = "run"
              /\ lastResp'.code # StatusAccepted
              /\ ~ReadTestPlanFails(body) => lastResp'.code = StatusConflict
              /\ UNCHANGED <<serverVars, agg, ctxDone, runPc, planOf, workers>>]_vars

C1_Witness ==
    /\ running
    /\ lastResp = [op |-> "run", code |-> StatusConflict]
    /\ \E r \in Runs : Active(r) /\ stats = r

\* C2: once /stop has returned 200 and no /run was accepted since that stop
\* took the lock, running is false, /metrics shows perfolizer_test_running 0,
\* and a /run with a valid plan is answered 202.
C2_AfterStopIdleAndRunnable ==
    [][hist.stopQuiet =>
          /\ ~running
          /\ MetricsBody.perfolizer_test_running = 0
          /\ \A body \in clients.bodies :
                (HandleRun(body) /\ ~ReadTestPlanFails(body)) =>
                    lastResp' = [op |-> "run", code |-> StatusAccepted]]_vars

C2_Witness ==
    /\ hist.stopQuiet
    /\ lastResp.op = "metrics"
    /\ \E r \in Runs : hist.run[r].stopped /\ stats = r /\ Active(r)

\* C3: when all thread groups of a run have returned and the run was not
\* stopped, the run's context is eventually cancelled and running eventually
\* becomes false; whenever running is false a valid /run is answered 202.
C3_NaturalCompletionFreesServer ==
    /\ \A r \in Runs :
          (runPc[r] = "runPlan" /\ AllWorkersReturned(r) /\ ~hist.run[r].stopped)
              ~> ctxDone[r]
    /\ (\E r \in Runs :
            runPc[r] = "runPlan" /\ AllWorkersReturned(r) /\ ~hist.run[r].stopped)
          ~> ~running
    /\ [][\A body \in clients.bodies :
             (~running /\ HandleRun(body) /\ ~ReadTestPlanFails(body)) =>
                 lastResp'.code = StatusAccepted]_vars

C3_Witness ==
    \E r \in Runs :
        /\ r > 1
        /\ runPc[r - 1] = "exited" /\ ctxDone[r - 1]
        /\ hist.freedBy = "completion"
        /\ Active(r) /\ stats = r
        /\ lastResp = [op |-> "run", code |-> StatusAccepted]

\* C4: a run that was accepted and has neither been stopped nor finished its
\* completion handler stays the current one: running is true and its cancel
\* function, aggregator and plan name are the stored ones, whatever the
\* completion handlers of earlier runs do.
C4_LateCompletionKeepsNewRun ==
    \A b \in Runs :
        (Active(b) /\ ~hist.run[b].stopped) =>
            /\ running
            /\ cancel = b
            /\ stats = b
            /\ currentPlanName = hist.run[b].name
            /\ currentPlanName # EmptyName

C4_Witness ==
    \E a \in Runs, b \in Runs :
        /\ a < b
        /\ runPc[a] = "exited" /\ hist.late
        /\ Active(b) /\ ~hist.run[b].stopped /\ stats = b

\* C10 (as amended): completion and /stop never clear the stored aggregator
\* reference; it changes only when a /run is accepted.  The completion
\* handler clears running, cancel and the plan name exactly when the stored
\* reference is the aggregator of the run that ended.
C10_AggregatorReferenceKept ==
    [][/\ stats' # stats => (~running /\ running' /\ stats' = cancel' /\ stats' # Nil)
       /\ \A r \in Runs :
            RunSetStopped(r) =>
                IF stats = r
                THEN ~running' /\ cancel' = Nil /\ currentPlanName' = EmptyName
                ELSE UNCHANGED serverVars]_vars

C10_Witness ==
    \E r \in Runs : runPc[r] = "exited" /\ stats = r /\ ~running /\ cancel = Nil

\* C10 (as stated): once a run has completed, the server no longer stores
\* that run's aggregator.
C10_AggregatorClearedOnCompletion ==
    \A r \in Runs : runPc[r] = "exited" => stats # r

\* ---- stats aggregator ----------------------------------------------------
Ended(r) == runPc[r] = "exited" /\ ~agg[r].loop

PerSampler(snapshot) == DOMAIN snapshot \ {TotalKey}

SumField(snapshot, field) ==
    SumOver(PerSampler(snapshot), [k \in PerSampler(snapshot) |-> snapshot[k][field]])

HasLine(body, n) == \E i \in DOMAIN body.samplers : body.samplers[i].label = Quote(n)

LineOf(body, n) ==
    body.samplers[CHOOSE i \in DOMAIN body.samplers : body.samplers[i].label = Quote(n)]

\* C5: in the final snapshot of a completed run, the TotalRequests of the
\* samplers add up to the number of ReportResult calls of the run.
C5_FinalSnapshotCountsEveryReport ==
    \A r \in Runs :
        Ended(r) => SumField(agg[r].latest, "TotalRequests") = hist.run[r].reported

\* C6: the latest published tick shows, per sampler and in Total, exactly the
\* reports made between the previous tick and that tick; the reports made
\* since are exactly what the interval counters hold for the next tick; and
\* every report is either in one published tick or still waiting for the next.
C6_EachReportInExactlyOneTick ==
    \A r \in Runs :
        LET sr == agg[r]
            h == hist.run[r]
        IN /\ \A k \in PerSampler(sr.latest) :
                /\ sr.latest[k].RPS = Ratio(h.lastWindow.count[k], ReportIntervalSeconds)
                /\ sr.latest[k].Errors = h.lastWindow.errors[k]
                /\ sr.latest[k].AvgLatency =
                       AvgOf(h.lastWindow.lat[k], h.lastWindow.count[k])
           /\ sr.latest[TotalKey].RPS.num = SumOver(SamplerNames, h.lastWindow.count)
           /\ sr.latest[TotalKey].Errors = SumOver(SamplerNames, h.lastWindow.errors)
           /\ sr.latest[TotalKey].AvgLatency.num =
                  Milliseconds(SumOver(SamplerNames, h.lastWindow.lat))
           /\ sr.intervalCounts = h.window.count
           /\ sr.intervalErrors = h.window.errors
           /\ sr.intervalLatSum = h.window.lat
           /\ h.published + SumOver(SamplerNames, h.window.count) = h.reported

C6_Witness ==
    \E r \in Runs :
        /\ hist.run[r].published > 0
        /\ SumOver(SamplerNames, hist.run[r].lastWindow.count) > 0
        /\ SumOver(SamplerNames, hist.run[r].window.count) > 0

\* C7: in every published snapshot, Total.Errors and Total.TotalErrors are
\* the sums of Errors and TotalErrors over the per-sampler entries.
C7_TotalIsSumOfSamplers ==
    \A r \in Runs :
        /\ agg[r].latest[TotalKey].Errors = SumField(agg[r].latest, "Errors")
        /\ agg[r].latest[TotalKey].TotalErrors = SumField(agg[r].latest, "TotalErrors")

\* C8: after a run has ended, /metrics has for every sampler that reported
\* in the run a line with perfolizer_rps 0.000000 and the sampler's
\* cumulative perfolizer_requests_total, and perfolizer_test_running is 0.
C8_RpsZeroAfterRunEnd ==
    \A r \in Runs :
        (Ended(r) /\ stats = r /\ ~running) =>
            /\ MetricsBody.perfolizer_test_running = 0
            /\ \A n \in agg[r].knownSamplers :
                  /\ HasLine(MetricsBody, n)
                  /\ LineOf(MetricsBody, n).perfolizer_rps = [int |-> 0, frac |-> 0]
                  /\ n # TotalKey =>
                        LineOf(MetricsBody, n).perfolizer_requests_total
                            = agg[r].totalCounts[n]

\* C9: the aggregator's Snapshot(), Server.Snapshot() and the /metrics body
\* always have the entry "Total".
C9_TotalAlwaysPresent ==
    /\ \A r \in Runs : TotalKey \in DOMAIN agg[r].latest
    /\ \A r \in Runs : TotalKey \in DOMAIN StatsSnapshot(agg[r])
    /\ TotalKey \in DOMAIN ServerSnapshot.snapshot
    /\ HasLine(MetricsBody, TotalKey)

C9_Witness ==
    /\ lastResp.op = "metrics"
    /\ \E r \in Runs : Ended(r) /\ stats = r /\ hist.run[r].published > 0

C9_WitnessIdle ==
    /\ lastResp.op = "metrics"
    /\ stats = Nil

\* ---- thread groups: what a child execution does ---------------------------
agentVars == <<running, cancel, stats, currentPlanName, ctxDone, runPc, planOf,
               workers, agg, stopPc, lastResp, clients, hist>>

NoClients == [bodies |-> {}, runs |-> 0]

Count(n) == IF n < CountCap THEN n + 1 ELSE n

\* the worker's context: whether its lifetime is cancelled, who owns its
\* limiters, and the variables the thread group put into it
SimpleEnv(w) ==
    [done |-> parentDone, owner |-> w, RPSNonBlocking |-> FALSE, DefaultRPS |-> 0,
     RPSProfileScale |-> Hundred]

RPSEnv(w) ==
    [done |-> groupDone, owner |-> SharedStore, RPSNonBlocking |-> TRUE,
     DefaultRPS |-> tg.RPS, RPSProfileScale |-> profileScale]

\* limiterStore.getOrCreate / getOrCreateLimiter: rate.NewLimiter(targetRPS, 1)
\* starts with a full bucket
getOrCreateLimiter(owner, c, targetRPS) ==
    IF limiters[owner][c].made THEN limiters[owner][c]
    ELSE [made |-> TRUE, limit |-> targetRPS, tokens |-> Burst, steady |-> TRUE]

\* limiter.SetLimit when the target changed
SetLimit(limiter, targetRPS) ==
    [limiter EXCEPT !.limit = targetRPS, !.steady = FALSE]

RefillFull(limiter) ==
    IF limiter.made THEN [limiter EXCEPT !.tokens = Burst] ELSE limiter

\* time passes for a limiter: the bucket fills at its rate up to the burst
Refill(limiter) ==
    IF limiter.made
    THEN [limiter EXCEPT !.tokens = IF @ + limiter.limit > Burst THEN Burst
                                    ELSE @ + limiter.limit]
    ELSE limiter

\* the Execute calls are counted where the iteration count makes them finite
Executed(c) ==
    IF tg.kind = "SimpleThreadGroup" /\ tg.Iterations # Infinite
    THEN [obs EXCEPT !.execs[c] = @ + 1]
    ELSE obs

\* a request goes out: counted per limiter owner while the observation
\* period is open, and remembered by its base rate if the call read a zero
\* profileScale
Requested(c, env, baseRPS) ==
    [Executed(c) EXCEPT
        !.requests[env.owner][c] =
            IF obs.watch /\ obs.elapsed < MaxTime THEN Count(@) ELSE @,
        !.atZero = IF env.RPSProfileScale = 0 THEN @ \cup {baseRPS} ELSE @]

\* http.NewRequest, http.DefaultClient.Do and the report: the request is
\* issued unless NewRequest fails; Execute returns nil after Do whatever the
\* response
SendRequest(child, c, env, baseRPS, err) ==
    IF child.bad
    THEN /\ err = "other"
         /\ obs' = Executed(c)
    ELSE /\ err = "nil"
         /\ obs' = Requested(c, env, baseRPS)

HttpSamplerExecuteUnlimited(child, c, env, err) ==
    LET baseRPS == IF child.TargetRPS = 0 THEN env.DefaultRPS ELSE child.TargetRPS
    IN /\ UNCHANGED limiters
       /\ SendRequest(child, c, env, baseRPS, err)

\* HttpSampler.Execute
HttpSamplerExecute(child, c, env, err) ==
    LET baseRPS == IF child.TargetRPS = 0 THEN env.DefaultRPS ELSE child.TargetRPS
        targetRPS == baseRPS * env.RPSProfileScale
        found == getOrCreateLimiter(env.owner, c, targetRPS)
        limiter == IF found.limit # targetRPS THEN SetLimit(found, targetRPS) ELSE found
        taken == [limiter EXCEPT !.tokens = @ - Burst]
    IN IF baseRPS > 0 /\ targetRPS <= 0
       THEN /\ err = "nil"
            /\ obs' = Executed(c)
            /\ UNCHANGED limiters
       ELSE IF targetRPS > 0
       THEN IF env.RPSNonBlocking
            THEN IF limiter.tokens >= Burst
                 THEN /\ limiters' = [limiters EXCEPT ![env.owner][c] = taken]
                      /\ SendRequest(child, c, env, baseRPS, err)
                 ELSE /\ limiters' = [limiters EXCEPT ![env.owner][c] = limiter]
                      /\ err = "nil"
                      /\ obs' = Executed(c)
            ELSE IF env.done
                 THEN /\ limiters' = [limiters EXCEPT ![env.owner][c] = limiter]
                      /\ err = "cancel"
                      /\ obs' = Executed(c)
                 ELSE \* limiter.Wait sleeps until the bucket holds a token
                      /\ limiter.tokens >= Burst
                      /\ limiters' = [limiters EXCEPT ![env.owner][c] = taken]
                      /\ SendRequest(child, c, env, baseRPS, err)
       ELSE /\ UNCHANGED limiters
            /\ SendRequest(child, c, env, baseRPS, err)

\* PauseController.Execute: the timer or ctx.Done()
PauseControllerExecute(child, c, env, err) ==
    /\ err \in (IF env.done THEN {"nil", "cancel"} ELSE {"nil"})
    /\ obs' = Executed(c)
    /\ UNCHANGED limiters

Execute(child, c, env, err) ==
    IF child.kind = "HttpSampler"
    THEN HttpSamplerExecute(child, c, env, err)
    ELSE PauseControllerExecute(child, c, env, err)

Errors == {"nil", "cancel", "other"}

\* ---- SimpleThreadGroup.Start ----------------------------------------------
rpsVars == <<groupDone, stopRequested, profileScale, driver>>

\* Start has done wg.Add(tg.Users) and is about to enter the spawn loop
StartCalled(g) ==
    /\ tg = g
    /\ parentDone = FALSE
    /\ starter = [pc |-> "spawn", i |-> 0, wg |-> g.Users]
    /\ threads = [w \in Workers |-> NoThread]
    /\ limiters = [o \in Owners |-> [c \in ChildIndex |-> NoLimiter]]

\* the caller cancels the ctx it passed to Start; groupCtx is derived from it
CancelParent ==
    /\ starter.pc \notin {"none", "returned"}
    /\ ~parentDone
    /\ parentDone' = TRUE
    /\ groupDone' = (groupDone \/ tg.kind = "RPSThreadGroup")
    /\ UNCHANGED <<tg, starter, threads, limiters, stopRequested, profileScale,
                   driver, obs, agentVars, docVars>>

\* go func(threadID): the worker stands before its first iteration
Go(w) == [threads EXCEPT ![w] = [pc |-> "check", iter |-> 0, child |-> 0]]

\* one turn of the spawn loop, up to the ramp-up select or the go statement
SpawnStep ==
    /\ tg.kind = "SimpleThreadGroup"
    /\ starter.pc = "spawn"
    /\ IF starter.i >= tg.Users
       THEN /\ starter' = [starter EXCEPT !.pc = "wait"]
            /\ UNCHANGED threads
       ELSE IF starter.i > 0 /\ RampStep(tg) > 0
       THEN /\ starter' = [starter EXCEPT !.pc = "ramp"]
            /\ UNCHANGED threads
       ELSE /\ starter' = [starter EXCEPT !.i = @ + 1]
            /\ threads' = Go(starter.i + 1)
    /\ UNCHANGED <<tg, parentDone, limiters, obs, rpsVars, agentVars, docVars>>

\* case <-time.After(rampStep)
RampElapsed ==
    /\ starter.pc = "ramp"
    /\ starter' = [starter EXCEPT !.pc = "spawn", !.i = @ + 1]
    /\ threads' = Go(starter.i + 1)
    /\ UNCHANGED <<tg, parentDone, limiters, obs, rpsVars, agentVars, docVars>>

RampCancelledKeepsCount ==
    /\ starter.pc = "ramp"
    /\ parentDone
    /\ starter' = [starter EXCEPT !.pc = "spawn", !.i = @ + 1]
    /\ threads' = [threads EXCEPT ![starter.i + 1].pc = "skipped"]
    /\ UNCHANGED <<tg, parentDone, limiters, obs, rpsVars, agentVars, docVars>>

\* case <-ctx.Done(): wg.Done() for the worker that is not started
RampCancelled ==
    /\ starter.pc = "ramp"
    /\ parentDone
    /\ starter' = [starter EXCEPT !.pc = "spawn", !.i = @ + 1, !.wg = @ - 1]
    /\ threads' = [threads EXCEPT ![starter.i + 1].pc = "skipped"]
    /\ UNCHANGED <<tg, parentDone, limiters, obs, rpsVars, agentVars, docVars>>

\* a worker returns: defer wg.Done()
Return(w) ==
    /\ threads' = [threads EXCEPT ![w].pc = "returned"]
    /\ starter' = [starter EXCEPT !.wg = @ - 1]

\* the for condition and the select on ctx.Done() that opens an iteration
SimpleCheck(w) ==
    /\ tg.kind = "SimpleThreadGroup"
    /\ threads[w].pc = "check"
    /\ IF tg.Iterations # Infinite /\ threads[w].iter >= tg.Iterations
       THEN Return(w)
       ELSE IF parentDone
       THEN Return(w)
       ELSE /\ threads' = [threads EXCEPT ![w].pc = "exec", ![w].child = 1]
            /\ UNCHANGED starter
    /\ UNCHANGED <<tg, parentDone, limiters, obs, rpsVars, agentVars, docVars>>

\* iter++; the counter of an unbounded loop is never compared and is left out
NextIter(iter) == IF tg.Iterations = Infinite THEN iter ELSE iter + 1

\* the worker goes on after a child: return on an error under cancellation
AfterExecute(w, lifetimeDone, err) ==
    IF err # "nil" /\ lifetimeDone
    THEN Return(w)
    ELSE /\ threads' = [threads EXCEPT ![w].child = @ + 1]
         /\ UNCHANGED starter

SimpleExecuteStopsOnError(w) ==
    /\ tg.kind = "SimpleThreadGroup"
    /\ threads[w].pc = "exec"
    /\ LET c == threads[w].child
       IN IF c > Len(tg.children)
          THEN /\ threads' = [threads EXCEPT ![w].pc = "check", ![w].iter = NextIter(@)]
               /\ UNCHANGED <<starter, limiters, obs>>
          ELSE IF ~tg.children[c].enabled \/ ~Executable(tg.children[c])
          THEN /\ threads' = [threads EXCEPT ![w].child = @ + 1]
               /\ UNCHANGED <<starter, limiters, obs>>
          ELSE \E err \in Errors :
                  /\ Execute(tg.children[c], c, SimpleEnv(w), err)
                  /\ AfterExecute(w, err # "nil" \/ parentDone, err)
    /\ UNCHANGED <<tg, parentDone, rpsVars, agentVars, docVars>>

\* the loop over tg.GetChildren() inside an iteration, one child per step
SimpleExecute(w) ==
    /\ tg.kind = "SimpleThreadGroup"
    /\ threads[w].pc = "exec"
    /\ LET c == threads[w].child
       IN IF c > Len(tg.children)
          THEN /\ threads' = [threads EXCEPT ![w].pc = "check", ![w].iter = NextIter(@)]
               /\ UNCHANGED <<starter, limiters, obs>>
          ELSE IF ~tg.children[c].enabled \/ ~Executable(tg.children[c])
          THEN /\ threads' = [threads EXCEPT ![w].child = @ + 1]
               /\ UNCHANGED <<starter, limiters, obs>>
          ELSE \E err \in Errors :
                  /\ Execute(tg.children[c], c, SimpleEnv(w), err)
                  /\ AfterExecute(w, parentDone, err)
    /\ UNCHANGED <<tg, parentDone, rpsVars, agentVars, docVars>>

\* wg.Wait() returns and so does Start
StartReturn ==
    /\ tg.kind = "SimpleThreadGroup"
    /\ starter.pc = "wait"
    /\ starter.wg = 0
    /\ starter' = [starter EXCEPT !.pc = "returned"]
    /\ UNCHANGED <<tg, parentDone, threads, limiters, obs, rpsVars, agentVars, docVars>>

\* time passes: one tick for every limiter and every timer
Elapse ==
    /\ starter.pc \notin {"none", "returned"}
    /\ limiters' = [o \in Owners |-> [c \in ChildIndex |-> Refill(limiters[o][c])]]
    /\ driver' = [driver EXCEPT !.timer = IF @ > 0 THEN @ - 1 ELSE 0,
                                !.since = IF driver.pc \in {"ramp", "rampWait"} /\
                                             @ < tg.ProfileBlocks[driver.block].RampUp
                                          THEN @ + 1 ELSE @]
    /\ obs' = [obs EXCEPT !.elapsed = IF obs.watch /\ @ < MaxTime THEN @ + 1 ELSE @,
                          !.sinceStop = IF stopRequested /\ @ < tg.GracefulShutdown
                                        THEN @ + 1 ELSE @]
    /\ UNCHANGED <<tg, parentDone, starter, threads, groupDone, stopRequested,
                   profileScale, agentVars, docVars>>

SimpleInit ==
    /\ InitWith(NoClients)
    /\ \E g \in SimpleGroups : StartCalled(g)
    /\ groupDone = FALSE /\ stopRequested = FALSE /\ profileScale = Hundred
    /\ driver = NoDriver
    /\ obs = NoObs
    /\ DocIdle

SimpleNext ==
    \/ CancelParent
    \/ SpawnStep
    \/ RampElapsed
    \/ RampCancelled
    \/ \E w \in Workers : SimpleCheck(w)
    \/ \E w \in Workers : SimpleExecute(w)
    \/ StartReturn

\* a SimpleThreadGroup without rate limits, started once
SimpleSpec == SimpleInit /\ [][SimpleNext]_vars

\* groups with a ramp-up delay between their workers
RampGroups ==
    {g \in SimpleGroups :
        RampStep(g) > 0 /\ g.Iterations # 0 /\ g.children = <<BadSampler, PauseChild>>}

SimpleFairInit ==
    /\ InitWith(NoClients)
    /\ \E g \in RampGroups : StartCalled(g)
    /\ groupDone = FALSE /\ stopRequested = FALSE /\ profileScale = Hundred
    /\ driver = NoDriver
    /\ obs = NoObs
    /\ DocIdle

\* the scheduler runs every goroutine of the group and the ramp-up timer fires
SimpleFairSpec ==
    /\ SimpleFairInit
    /\ [][SimpleNext]_vars
    /\ WF_vars(SpawnStep) /\ WF_vars(RampElapsed) /\ WF_vars(RampCancelled)
    /\ WF_vars(StartReturn)
    /\ \A w \in Workers : WF_vars(SimpleCheck(w)) /\ WF_vars(SimpleExecute(w))

\* ---- thread groups: iteration count and termination ------------------------
Runnable(child) == child.enabled /\ Executable(child)

\* C11: when Start of a Simple thread group with users = N and a finite
\* iterations = K has returned and its lifetime was not cancelled, every
\* enabled executable child has been executed exactly N*K times (and no other
\* child at all), whatever errors the executions returned.
C11_EachChildRunsUsersTimesIterations ==
    (/\ tg.kind = "SimpleThreadGroup"
     /\ tg.Iterations # Infinite
     /\ starter.pc = "returned"
     /\ ~parentDone) =>
        \A c \in 1..Len(tg.children) :
            obs.execs[c] = IF Runnable(tg.children[c])
                           THEN tg.Users * tg.Iterations ELSE 0

C11_Witness ==
    /\ tg.kind = "SimpleThreadGroup"
    /\ tg.Users = MaxWorkers /\ tg.Iterations = MaxIterations
    /\ tg.children = <<BadSampler, PauseChild>>
    /\ starter.pc = "returned" /\ ~parentDone
    /\ obs.execs[1] = MaxWorkers * MaxIterations
    /\ obs.execs[2] = MaxWorkers * MaxIterations

Running(w) == threads[w].pc \in {"check", "exec"}

\* C12: Start has not returned while a worker is running; once the lifetime
\* is cancelled no worker begins an iteration, a worker skipped during
\* ramp-up is never started, and Start eventually returns.
C12_StartWaitsAndReturnsAfterCancel ==
    /\ [](starter.pc = "returned" => \A w \in Workers : ~Running(w))
    /\ [][\A w \in Workers :
            /\ (threads[w].pc = "check" /\ threads'[w].pc = "exec") => ~parentDone
            /\ threads[w].pc = "skipped" => threads'[w].pc = "skipped"]_vars
    /\ (parentDone ~> starter.pc = "returned")

C12_Witness ==
    /\ tg.kind = "SimpleThreadGroup"
    /\ starter.pc = "returned"
    /\ parentDone
    /\ \E w \in Workers : threads[w].pc = "skipped"
    /\ \E w \in Workers : threads[w].pc = "returned"

\* ---- RPSThreadGroup.Start --------------------------------------------------
RPSProfileBlock(rampUp, stepDuration, percent) ==
    [RampUp |-> rampUp, StepDuration |-> stepDuration, ProfilePercent |-> percent]

RPSThreadGroup(users, rps, blocks, graceful, children) ==
    [kind |-> "RPSThreadGroup", Users |-> users, Iterations |-> 0, RampUp |-> 0,
     RPS |-> rps, ProfileBlocks |-> blocks, GracefulShutdown |-> graceful,
     children |-> children]

\* normalizeProfilePercent, the result in hundredths
normalizeProfilePercent(percent) ==
    IF percent < 0 THEN 0
    ELSE IF percent > 1 THEN percent
    ELSE percent * Hundred

\* profileScaleState.set
ScaleSet(v) == IF v < 0 THEN 0 ELSE v

BlockLists ==
    {<<>>,
     <<RPSProfileBlock(0, 2, 50)>>,
     <<RPSProfileBlock(0, 1, 0), RPSProfileBlock(0, 1, 1)>>,
     <<RPSProfileBlock(2, 0, 100), RPSProfileBlock(0, 1, -50)>>}

RPSChildLists == {<<PlainSampler>>, <<LimitedSampler, PauseChild>>}

RPSGroups ==
    {RPSThreadGroup(u, 10, b, g, c) :
        u \in {1, MaxWorkers}, b \in BlockLists, g \in {0, 2}, c \in RPSChildLists}
    \cup {RPSThreadGroup(u, 0, b, g, <<PlainSampler>>) :
        u \in {1, MaxWorkers}, b \in BlockLists, g \in {0, 2}}

\* Start up to wg.Wait(): groupCtx, the limiter store, profileScale, the
\* driver goroutine and the workers exist
RPSStarted(g, scale) ==
    /\ tg = g
    /\ parentDone = FALSE
    /\ starter = [pc |-> "wait", i |-> g.Users, wg |-> g.Users]
    /\ threads = [w \in Workers |->
                    IF w <= g.Users THEN [pc |-> "check", iter |-> 0, child |-> 0]
                    ELSE NoThread]
    /\ limiters = [o \in Owners |-> [c \in ChildIndex |-> NoLimiter]]
    /\ groupDone = FALSE
    /\ stopRequested = FALSE
    /\ profileScale = scale
    /\ driver = [NoDriver EXCEPT !.pc = "start"]

\* newProfileScaleState(1), and set(0) when there are blocks
RPSStartCalled(g) ==
    RPSStarted(g, IF Len(g.ProfileBlocks) > 0 THEN 0 ELSE Hundred)

simpleVars == <<starter, threads, limiters, obs>>

\* the driver goroutine up to the first block: without blocks requestStop()
\* and return, else the opening of runRPSProfileBlocks
DriverStart ==
    /\ driver.pc = "start"
    /\ IF Len(tg.ProfileBlocks) = 0
       THEN /\ stopRequested' = TRUE
            /\ driver' = [driver EXCEPT !.pc = "cancel"]
            /\ UNCHANGED profileScale
       ELSE /\ profileScale' = ScaleSet(0)
            /\ driver' = [driver EXCEPT !.pc = "block", !.block = 1, !.currentScale = 0]
            /\ UNCHANGED stopRequested
    /\ UNCHANGED <<tg, parentDone, groupDone, simpleVars, agentVars, docVars>>

AfterBlocksNoWait ==
    /\ stopRequested' = TRUE
    /\ driver' = [driver EXCEPT !.pc = "cancel"]

\* requestStop() after runRPSProfileBlocks, then the graceful wait if any
AfterBlocks ==
    /\ stopRequested' = TRUE
    /\ driver' = IF tg.GracefulShutdown > 0
                 THEN [driver EXCEPT !.pc = "graceful", !.timer = tg.GracefulShutdown]
                 ELSE [driver EXCEPT !.pc = "cancel"]

Target(b) == normalizeProfilePercent(tg.ProfileBlocks[b].ProfilePercent)

HoldBeforeSet(b) ==
    /\ profileScale' = profileScale
    /\ driver' = IF tg.ProfileBlocks[b].StepDuration <= 0
                 THEN [driver EXCEPT !.pc = "block", !.block = b + 1,
                                     !.currentScale = Target(b)]
                 ELSE [driver EXCEPT !.pc = "hold",
                                     !.timer = tg.ProfileBlocks[b].StepDuration]

\* profileScale.set(targetScale) and the start of the wait for StepDuration
Hold(b) ==
    /\ profileScale' = ScaleSet(Target(b))
    /\ driver' = IF tg.ProfileBlocks[b].StepDuration <= 0
                 THEN [driver EXCEPT !.pc = "block", !.block = b + 1,
                                     !.currentScale = Target(b)]
                 ELSE [driver EXCEPT !.pc = "hold",
                                     !.timer = tg.ProfileBlocks[b].StepDuration]

\* the head of the loop over the blocks
BlockBegin ==
    /\ driver.pc = "block"
    /\ IF driver.block > Len(tg.ProfileBlocks)
       THEN AfterBlocks /\ UNCHANGED profileScale
       ELSE IF tg.ProfileBlocks[driver.block].RampUp > 0
       THEN /\ driver' = [driver EXCEPT !.pc = "ramp", !.since = 0]
            /\ UNCHANGED <<profileScale, stopRequested>>
       ELSE Hold(driver.block) /\ UNCHANGED stopRequested
    /\ UNCHANGED <<tg, parentDone, groupDone, simpleVars, agentVars, docVars>>

RampTurnFromZero ==
    /\ driver.pc = "ramp"
    /\ LET b == tg.ProfileBlocks[driver.block]
           elapsed == driver.since
           remaining == b.RampUp - elapsed
           waitStep == IF remaining < RampWaitStep THEN remaining ELSE RampWaitStep
       IN IF elapsed >= b.RampUp
          THEN Hold(driver.block)
          ELSE /\ profileScale' =
                     ScaleSet((Target(driver.block) * elapsed) \div b.RampUp)
               /\ driver' = [driver EXCEPT !.pc = "rampWait", !.timer = waitStep]
    /\ UNCHANGED <<tg, parentDone, groupDone, stopRequested, simpleVars, agentVars,
                   docVars>>

\* one turn of the ramp-up loop, up to its waitForDuration
RampTurn ==
    /\ driver.pc = "ramp"
    /\ LET b == tg.ProfileBlocks[driver.block]
           elapsed == driver.since
           remaining == b.RampUp - elapsed
           waitStep == IF remaining < RampWaitStep THEN remaining ELSE RampWaitStep
       IN IF elapsed >= b.RampUp
          THEN Hold(driver.block)
          ELSE /\ profileScale' =
                     ScaleSet(driver.currentScale +
                              ((Target(driver.block) - driver.currentScale) * elapsed)
                                  \div b.RampUp)
               /\ driver' = [driver EXCEPT !.pc = "rampWait", !.timer = waitStep]
    /\ UNCHANGED <<tg, parentDone, groupDone, stopRequested, simpleVars, agentVars,
                   docVars>>

WaitElapsedAtOnce ==
    /\ driver.pc \in {"rampWait", "hold", "graceful"}
    /\ driver' = IF driver.pc = "rampWait" THEN [driver EXCEPT !.pc = "ramp"]
                 ELSE IF driver.pc = "hold"
                 THEN [driver EXCEPT !.pc = "block", !.block = @ + 1,
                                     !.currentScale = Target(driver.block)]
                 ELSE [driver EXCEPT !.pc = "cancel"]
    /\ UNCHANGED <<tg, parentDone, groupDone, stopRequested, profileScale, simpleVars,
                   agentVars, docVars>>

\* waitForDuration: case <-timer.C
WaitElapsed ==
    /\ driver.pc \in {"rampWait", "hold", "graceful"}
    /\ driver.timer = 0
    /\ driver' = IF driver.pc = "rampWait" THEN [driver EXCEPT !.pc = "ramp"]
                 ELSE IF driver.pc = "hold"
                 THEN [driver EXCEPT !.pc = "block", !.block = @ + 1,
                                     !.currentScale = Target(driver.block)]
                 ELSE [driver EXCEPT !.pc = "cancel"]
    /\ UNCHANGED <<tg, parentDone, groupDone, stopRequested, profileScale, simpleVars,
                   agentVars, docVars>>

\* waitForDuration: case <-ctx.Done(); out of the blocks this is the return
\* of runRPSProfileBlocks, followed by requestStop()
WaitCancelled ==
    /\ driver.pc \in {"rampWait", "hold", "graceful"}
    /\ groupDone
    /\ IF driver.pc = "graceful"
       THEN /\ driver' = [driver EXCEPT !.pc = "cancel"]
            /\ UNCHANGED stopRequested
       ELSE AfterBlocks
    /\ UNCHANGED <<tg, parentDone, groupDone, profileScale, simpleVars, agentVars,
                   docVars>>

\* defer cancel() of the driver goroutine
DriverCancel ==
    /\ driver.pc = "cancel"
    /\ groupDone' = TRUE
    /\ driver' = [driver EXCEPT !.pc = "exited"]
    /\ UNCHANGED <<tg, parentDone, stopRequested, profileScale, simpleVars, agentVars,
                   docVars>>

\* the select that opens a loop turn of a worker
RPSCheck(w) ==
    /\ tg.kind = "RPSThreadGroup"
    /\ threads[w].pc = "check"
    /\ IF groupDone \/ stopRequested
       THEN Return(w)
       ELSE /\ threads' = [threads EXCEPT ![w].pc = "exec", ![w].child = 1]
            /\ UNCHANGED starter
    /\ UNCHANGED <<tg, parentDone, limiters, obs, rpsVars, agentVars, docVars>>

\* the loop over tg.GetChildren() inside a turn, one child per step
RPSExecute(w) ==
    /\ tg.kind = "RPSThreadGroup"
    /\ threads[w].pc = "exec"
    /\ LET c == threads[w].child
       IN IF c > Len(tg.children)
          THEN /\ threads' = [threads EXCEPT ![w].pc = "check"]
               /\ UNCHANGED <<starter, limiters, obs>>
          ELSE IF ~tg.children[c].enabled \/ ~Executable(tg.children[c])
          THEN /\ threads' = [threads EXCEPT ![w].child = @ + 1]
               /\ UNCHANGED <<starter, limiters, obs>>
          ELSE \E err \in Errors :
                  /\ Execute(tg.children[c], c, RPSEnv(w), err)
                  /\ AfterExecute(w, groupDone, err)
    /\ UNCHANGED <<tg, parentDone, rpsVars, agentVars, docVars>>

RPSStartReturnEarly ==
    /\ tg.kind = "RPSThreadGroup"
    /\ starter.pc = "wait"
    /\ stopRequested
    /\ starter' = [starter EXCEPT !.pc = "returned"]
    /\ groupDone' = TRUE
    /\ UNCHANGED <<tg, parentDone, threads, limiters, obs, stopRequested, profileScale,
                   driver, agentVars, docVars>>

\* wg.Wait() returns, then the deferred cancel() and the return of Start
RPSStartReturn ==
    /\ tg.kind = "RPSThreadGroup"
    /\ starter.pc = "wait"
    /\ starter.wg = 0
    /\ starter' = [starter EXCEPT !.pc = "returned"]
    /\ groupDone' = TRUE
    /\ UNCHANGED <<tg, parentDone, threads, limiters, obs, stopRequested, profileScale,
                   driver, agentVars, docVars>>

RPSInit ==
    /\ InitWith(NoClients)
    /\ \E g \in RPSGroups : RPSStartCalled(g)
    /\ obs = NoObs
    /\ DocIdle

RPSNext ==
    \/ CancelParent
    \/ DriverStart
    \/ BlockBegin
    \/ RampTurn
    \/ WaitElapsed
    \/ WaitCancelled
    \/ DriverCancel
    \/ \E w \in Workers : RPSCheck(w)
    \/ \E w \in Workers : RPSExecute(w)
    \/ RPSStartReturn
    \/ Elapse

\* an RPSThreadGroup started once
RPSSpec == RPSInit /\ [][RPSNext]_vars

\* groups of MaxWorkers workers whose sampler has no rate limit
RPSFairGroups == {g \in RPSGroups : g.Users = MaxWorkers /\ g.RPS = 0}

RPSFairInit ==
    /\ InitWith(NoClients)
    /\ \E g \in RPSFairGroups : RPSStartCalled(g)
    /\ obs = NoObs
    /\ DocIdle

\* the scheduler runs the driver, every worker and the goroutine in Start
RPSFairSpec ==
    /\ RPSFairInit
    /\ [][RPSNext]_vars
    /\ WF_vars(DriverStart) /\ WF_vars(BlockBegin) /\ WF_vars(RampTurn)
    /\ WF_vars(WaitCancelled) /\ WF_vars(DriverCancel)
    /\ WF_vars(RPSStartReturn)
    /\ \A w \in Workers : WF_vars(RPSCheck(w)) /\ WF_vars(RPSExecute(w))

\* ---- RPS thread group: termination, stop and profile scale -----------------
Started(w) == w <= tg.Users

\* C13: Start of an RPS thread group has returned only when every worker has
\* returned, and once the profile blocks are exhausted (stop is requested) or
\* the parent lifetime has ended, Start eventually returns.
C13_RPSStartReturnsAfterWorkers ==
    /\ [](starter.pc = "returned" =>
            \A w \in Workers : Started(w) => threads[w].pc = "returned")
    /\ ((stopRequested \/ parentDone) ~> starter.pc = "returned")

C13_Witness ==
    /\ tg.kind = "RPSThreadGroup"
    /\ Len(tg.ProfileBlocks) > 0
    /\ driver.block > Len(tg.ProfileBlocks)
    /\ ~parentDone
    /\ starter.pc = "returned"
    /\ \A w \in Workers : Started(w) => threads[w].pc = "returned"

InFlight == \E w \in Workers : threads[w].pc = "exec"

\* the child lifetime is cancelled in this step while the parent lives on
GroupCancels == ~groupDone /\ groupDone' /\ ~parentDone'

HasBlocks == tg.kind = "RPSThreadGroup" /\ Len(tg.ProfileBlocks) > 0

\* C15 as stated: with at least one profile block profileScale starts at 0,
\* and no sampler of the group issues a request in a call that finds
\* profileScale at 0, whatever its TargetRPS and the group's RPS.
C15_NoRequestAtScaleZero ==
    HasBlocks =>
        /\ driver.pc = "start" => profileScale = 0
        /\ obs.atZero = {}

\* C15 (amended): with at least one profile block profileScale starts at 0,
\* and a sampler whose base rate (its TargetRPS, or the group's RPS when
\* TargetRPS is 0) is positive issues no request in a call that finds
\* profileScale at 0; a sampler without a base rate is not held back.
C15_NoLimitedRequestAtScaleZero ==
    HasBlocks =>
        /\ driver.pc = "start" => profileScale = 0
        /\ \A baseRPS \in obs.atZero : baseRPS <= 0

C15_Witness ==
    /\ HasBlocks
    /\ tg.RPS > 0
    /\ driver.pc = "hold" /\ driver.block = 1 /\ Target(1) = 0
    /\ profileScale = 0
    /\ \E w \in Workers : threads[w].pc = "exec" /\ threads[w].child > 1
    /\ obs.atZero = {}

\* the driver holds a block that has no ramp-up
HoldsFlat ==
    /\ HasBlocks
    /\ driver.pc = "hold"
    /\ tg.ProfileBlocks[driver.block].RampUp = 0

\* C16: while the driver holds a block with rampUp = 0, profileScale is the
\* block's normalized target, and the driver leaves the hold only when the
\* whole stepDuration has elapsed or the lifetime has ended.
C16_FlatBlockHoldsTarget ==
    /\ [](HoldsFlat => profileScale = Target(driver.block))
    /\ [][(HoldsFlat /\ driver'.pc # "hold") => (driver.timer = 0 \/ groupDone)]_vars

C16_Witness ==
    /\ HoldsFlat
    /\ ~groupDone
    /\ driver.timer = 0
    /\ Target(driver.block) = 50
    /\ profileScale = 50
    /\ \E w \in Workers : threads[w].pc = "exec" /\ threads[w].child > 1

\* ---- rate limits -------------------------------------------------------------
\* groups whose only child is a sampler with a TargetRPS: Simple groups of every size,
\* RPS groups with one level and with a ramp
LimiterGroups ==
    {SimpleThreadGroup(u, Infinite, MaxWorkers, <<LimitedSampler>>) : u \in 1..MaxWorkers}
    \cup {RPSThreadGroup(MaxWorkers, 10, b, 0, <<LimitedSampler>>) :
            b \in {<<RPSProfileBlock(0, 2, 50)>>,
                   <<RPSProfileBlock(2, 0, 100), RPSProfileBlock(0, 1, -50)>>}}

\* the requests are observed from the call of Start for MaxTime ticks
LimiterInit ==
    /\ InitWith(NoClients)
    /\ \E g \in LimiterGroups :
        IF g.kind = "SimpleThreadGroup"
        THEN /\ StartCalled(g)
             /\ groupDone = FALSE /\ stopRequested = FALSE /\ profileScale = Hundred
             /\ driver = NoDriver
        ELSE RPSStartCalled(g)
    /\ obs = [NoObs EXCEPT !.watch = TRUE]
    /\ DocIdle

LimiterNext == SimpleNext \/ RPSNext

\* a thread group with a rate-limited sampler, observed for MaxTime ticks
LimiterSpec == LimiterInit /\ [][LimiterNext]_vars

RECURSIVE RequestsUpTo(_, _)
\* the requests of sampler c counted for the owners 0..o
RequestsUpTo(c, o) ==
    IF o = SharedStore THEN obs.requests[SharedStore][c]
    ELSE obs.requests[o][c] + RequestsUpTo(c, o - 1)

\* ceil(R * D) + 1 for the rate of a limiter and the time observed so far
RateBound(limit) == ((limit * obs.elapsed + Burst - 1) \div Burst) + 1

MadeFor(c) == {o \in Owners : limiters[o][c].made}

\* C17 as stated: for a sampler whose limiters have kept one rate R, the
\* requests observed over a period D, summed over all workers of the group,
\* are at most ceil(R*D) + 1.
C17_GroupRequestsWithinRate ==
    \A c \in ChildIndex :
        (MadeFor(c) # {} /\ \A o \in MadeFor(c) : limiters[o][c].steady) =>
            \A o \in MadeFor(c) :
                RequestsUpTo(c, MaxWorkers) <= RateBound(limiters[o][c].limit)

\* C17 (amended): for a limiter that has kept one rate R, the requests
\* that passed it over a period D are at most ceil(R*D) + 1; an RPS group has
\* one limiter per sampler for all its workers, a Simple group one per
\* sampler and worker.
C17_LimiterRequestsWithinRate ==
    \A c \in ChildIndex : \A o \in MadeFor(c) :
        limiters[o][c].steady => obs.requests[o][c] <= RateBound(limiters[o][c].limit)

C17_Witness ==
    /\ tg.kind = "SimpleThreadGroup"
    /\ tg.Users = MaxWorkers
    /\ obs.elapsed = MaxTime
    /\ \A w \in Workers :
        /\ limiters[w][1].made /\ limiters[w][1].steady
        /\ obs.requests[w][1] = 1 + (limiters[w][1].limit * obs.elapsed) \div Burst

\* ---- persistence: toDTO, fromDTO and the JSON codec ----------------------------
\* a value of a props map with its Go dynamic type
Val(t, v) == [t |-> t, v |-> v]

EmptyProps == [k \in {} |-> Val("nil", 0)]

\* time.Duration(ms) * time.Millisecond
Duration(ms) == ms * UnitsPerMillisecond

GeneratedID == "generated"

\* an element with the fields of every type; NewBaseElement(name) and the
\* zero values of the fields
NewBaseElement(type, name) ==
    [type |-> type, id |-> GeneratedID, name |-> name, enabled |-> TRUE,
     Users |-> 0, Iterations |-> 0, RampUp |-> 0, RPS |-> 0, ProfileBlocks |-> <<>>,
     GracefulShutdown |-> 0, Loops |-> 0, Duration |-> 0, children |-> <<>>]

RegisteredTypes ==
    {"SimpleThreadGroup", "RPSThreadGroup", "LoopController", "PauseController"}

\* RPSThreadGroup.GetProps: one map per profile block
BlockProps(block) ==
    ("RampUpMS" :> Val("int64", Milliseconds(block.RampUp))) @@
    ("StepDurationMS" :> Val("int64", Milliseconds(block.StepDuration))) @@
    ("ProfilePercent" :> Val("float64", block.ProfilePercent))

\* GetProps of the Serializable element types
GetProps(el) ==
    CASE el.type = "SimpleThreadGroup" ->
            ("Users" :> Val("int", el.Users)) @@
            ("Iterations" :> Val("int", el.Iterations))
      [] el.type = "RPSThreadGroup" ->
            ("Users" :> Val("int", el.Users)) @@
            ("RPS" :> Val("float64", el.RPS)) @@
            ("ProfileBlocks" :>
                Val("[]map", [i \in 1..Len(el.ProfileBlocks) |->
                                BlockProps(el.ProfileBlocks[i])])) @@
            ("GracefulShutdownMS" :> Val("int64", Milliseconds(el.GracefulShutdown)))
      [] el.type = "LoopController" -> ("Loops" :> Val("int", el.Loops))
      [] el.type = "PauseController" ->
            ("DurationMS" :> Val("int64", Milliseconds(el.Duration)))
      [] OTHER -> EmptyProps

\* a *bool
Ptr(b) == [nil |-> FALSE, v |-> b]
NilPtr == [nil |-> TRUE, v |-> FALSE]

RECURSIVE toDTO(_)
toDTO(el) ==
    [Type |-> IF el.type \in RegisteredTypes THEN el.type ELSE "TestPlan",
     ID |-> el.id,
     Name |-> el.name,
     Enabled |-> Ptr(el.enabled),
     Props |-> GetProps(el),
     Children |-> [i \in 1..Len(el.children) |-> toDTO(el.children[i])]]

GetInt(props, key, def) ==
    IF key \in DOMAIN props
    THEN IF props[key].t = "float64" THEN props[key].v
         ELSE IF props[key].t = "int" THEN props[key].v
         ELSE def
    ELSE def

GetFloat(props, key, def) ==
    IF key \in DOMAIN props
    THEN IF props[key].t = "float64" THEN props[key].v
         ELSE IF props[key].t = "int" THEN props[key].v
         ELSE def
    ELSE def

\* the items of a []interface{} that are maps, as profile blocks
RECURSIVE ParsedBlocks(_)
ParsedBlocks(items) ==
    IF items = <<>> THEN <<>>
    ELSE (IF Head(items).t = "map"
          THEN <<RPSProfileBlock(Duration(GetInt(Head(items).v, "RampUpMS", 0)),
                                 Duration(GetInt(Head(items).v, "StepDurationMS", 0)),
                                 GetFloat(Head(items).v, "ProfilePercent", Hundred))>>
          ELSE <<>>) \o ParsedBlocks(Tail(items))

parseRPSProfileBlocks(props) ==
    IF "ProfileBlocks" \notin DOMAIN props
    THEN IF Duration(GetInt(props, "DurationMS", 0)) > 0
         THEN <<RPSProfileBlock(0, Duration(GetInt(props, "DurationMS", 0)), Hundred)>>
         ELSE <<>>
    ELSE IF props["ProfileBlocks"].t # "[]interface" THEN <<>>
    ELSE ParsedBlocks(props["ProfileBlocks"].v)

DefaultUsers == 10
DefaultRPS == 10
DefaultDurationMS == 1000

\* the registered factories
Factory(type, name, props) ==
    CASE type = "SimpleThreadGroup" ->
            [NewBaseElement(type, name) EXCEPT
                !.Users = GetInt(props, "Users", 1),
                !.Iterations = GetInt(props, "Iterations", 1)]
      [] type = "RPSThreadGroup" ->
            [NewBaseElement(type, name) EXCEPT
                !.Users = GetInt(props, "Users", DefaultUsers),
                !.RPS = GetFloat(props, "RPS", DefaultRPS),
                !.ProfileBlocks = parseRPSProfileBlocks(props),
                !.GracefulShutdown = Duration(GetInt(props, "GracefulShutdownMS", 0))]
      [] type = "LoopController" ->
            [NewBaseElement(type, name) EXCEPT !.Loops = GetInt(props, "Loops", 1)]
      [] type = "PauseController" ->
            [NewBaseElement(type, name) EXCEPT
                !.Duration = Duration(GetInt(props, "DurationMS", DefaultDurationMS))]

NoElement == [type |-> "none"]

RECURSIVE fromDTO(_), loadChildren(_)
\* the children that load, in their order
loadChildrenStopsAtUnknown(children) ==
    IF children = <<>> THEN <<>>
    ELSE IF fromDTO(Head(children)).err THEN <<>>
    ELSE <<fromDTO(Head(children)).el>> \o loadChildren(Tail(children))

loadChildren(children) ==
    IF children = <<>> THEN <<>>
    ELSE (IF fromDTO(Head(children)).err THEN <<>>
          ELSE <<fromDTO(Head(children)).el>>) \o loadChildren(Tail(children))

fromDTO(dto) ==
    IF dto.Type \notin RegisteredTypes /\ dto.Type # "TestPlan"
    THEN [err |-> TRUE, el |-> NoElement]
    ELSE LET made == IF dto.Type \in RegisteredTypes
                     THEN Factory(dto.Type, dto.Name, dto.Props)
                     ELSE NewBaseElement("TestPlan", dto.Name)
         IN [err |-> FALSE,
             el |-> [made EXCEPT
                        !.id = IF dto.ID # "" THEN dto.ID ELSE @,
                        !.enabled = IF dto.Enabled.nil THEN @ ELSE dto.Enabled.v,
                        !.children = loadChildren(dto.Children)]]

\* encoding/json on a props value: numbers lose their Go type, a slice of
\* maps becomes an array of objects
JSONNumber(val) == [j |-> "number", v |-> val.v]

JSONObject(m) == [k \in DOMAIN m |-> JSONNumber(m[k])]

JSONValue(val) ==
    IF val.t \in {"[]map", "[]interface"}
    THEN [j |-> "array", v |-> [i \in 1..Len(val.v) |->
            JSONObject(IF val.t = "[]map" THEN val.v[i] ELSE val.v[i].v)]]
    ELSE JSONNumber(val)

\* json.Marshal of a TestElementDTO: the omitempty fields are present only
\* when they are not empty
RECURSIVE Marshal(_)
Marshal(dto) ==
    [type |-> dto.Type, id |-> dto.ID, name |-> dto.Name,
     has |-> (IF dto.Enabled.nil THEN {} ELSE {"enabled"})
             \cup (IF DOMAIN dto.Props = {} THEN {} ELSE {"props"})
             \cup (IF dto.Children = <<>> THEN {} ELSE {"children"}),
     enabled |-> dto.Enabled.v,
     props |-> [k \in DOMAIN dto.Props |-> JSONValue(dto.Props[k])],
     children |-> [i \in 1..Len(dto.Children) |-> Marshal(dto.Children[i])]]

\* json.Unmarshal into interface{}: float64, []interface{} and
\* map[string]interface{}
GoValue(j) ==
    IF j.j = "array"
    THEN Val("[]interface",
             [i \in 1..Len(j.v) |->
                Val("map", [k \in DOMAIN j.v[i] |-> Val("float64", j.v[i][k].v)])])
    ELSE Val("float64", j.v)

RECURSIVE Unmarshal(_)
Unmarshal(json) ==
    [Type |-> json.type, ID |-> json.id, Name |-> json.name,
     Enabled |-> IF "enabled" \in json.has THEN Ptr(json.enabled) ELSE NilPtr,
     Props |-> [k \in DOMAIN json.props |-> GoValue(json.props[k])],
     Children |-> [i \in 1..Len(json.children) |-> Unmarshal(json.children[i])]]

\* ---- element trees and documents ----------------------------------------------
PauseElement(duration, enabled) ==
    [NewBaseElement("PauseController", "pause") EXCEPT
        !.id = "p", !.Duration = duration, !.enabled = enabled]

\* a pause of 2 ms and a disabled one of 1.5 ms
Leaves == {PauseElement(Duration(2), TRUE), PauseElement(Duration(1) + 1, FALSE)}

LeafLists == {<<>>} \cup {<<l>> : l \in Leaves}

SimpleElement(rampUp, children) ==
    [NewBaseElement("SimpleThreadGroup", "simple") EXCEPT
        !.id = "s", !.Users = 2, !.Iterations = 3, !.RampUp = rampUp,
        !.children = children]

RPSElement(blocks, graceful, enabled, children) ==
    [NewBaseElement("RPSThreadGroup", "rps") EXCEPT
        !.id = "q", !.Users = 2, !.RPS = 5, !.ProfileBlocks = blocks,
        !.GracefulShutdown = graceful, !.enabled = enabled, !.children = children]

LoopElement(children) ==
    [NewBaseElement("LoopController", "loop") EXCEPT
        !.id = "l", !.Loops = 2, !.children = children]

GroupElements ==
    {SimpleElement(0, c) : c \in LeafLists}
    \cup {SimpleElement(Duration(2), <<>>)}
    \cup {RPSElement(<<>>, 0, e, <<>>) : e \in BOOLEAN}
    \cup {RPSElement(<<RPSProfileBlock(Duration(1), Duration(2), 50)>>, 0, TRUE, <<>>),
          RPSElement(<<>>, Duration(2), TRUE, <<>>)}
    \cup {LoopElement(<<l>>) : l \in Leaves}

\* the sequences over S of length at most n
SeqsUpTo(S, n) == UNION {[1..k -> S] : k \in 0..n}

\* test plans built in the program: a plain root over thread groups and
\* controllers
Roots ==
    {[NewBaseElement("TestPlan", "plan") EXCEPT !.id = "r", !.children = c] :
        c \in SeqsUpTo(GroupElements, MaxChildren)}

IdAt(i) == <<"a", "b", "c", "d", "e">>[i]

DTO(type, id, children) ==
    [Type |-> type, ID |-> id, Name |-> "n", Enabled |-> NilPtr, Props |-> EmptyProps,
     Children |-> children]

\* the children of a DTO from their types, each with the id of its place
ChildDTOs(types, grandchildren) ==
    [i \in 1..Len(types) |-> DTO(types[i], IdAt(i), grandchildren)]

\* documents received from outside, with type tags no factory is registered for
ReceivedDTOs ==
    {DTO(t, "r", ChildDTOs(mid, ChildDTOs(low, <<>>))) :
        t \in {"TestPlan", "LoopController", "Mystery"},
        mid \in SeqsUpTo({"LoopController", "Mystery"}, MaxChildren + 1),
        low \in SeqsUpTo({"PauseController", "Mystery"}, MaxChildren)}

NoDTO == [Type |-> "none"]
NoJSON == [type |-> "none"]
NoBack == [err |-> FALSE, el |-> NoElement]

DtoInit ==
    /\ InitWith(NoClients)
    /\ GroupIdle
    /\ call = NoCall
    /\ \/ \E r \in Roots :
            doc = [stage |-> "tree", root |-> r, dto |-> NoDTO, json |-> NoJSON,
                   back |-> NoBack]
       \/ \E d \in ReceivedDTOs :
            doc = [stage |-> "dto", root |-> NoElement, dto |-> d, json |-> NoJSON,
                   back |-> NoBack]

\* toDTO(root)
ToDTO ==
    /\ doc.stage = "tree"
    /\ doc' = [doc EXCEPT !.stage = "dto", !.dto = toDTO(doc.root)]
    /\ UNCHANGED <<agentVars, groupVars, call>>

\* fromDTO(dto)
FromDTO ==
    /\ doc.stage = "dto"
    /\ doc' = [doc EXCEPT !.stage = "loaded", !.back = fromDTO(doc.dto)]
    /\ UNCHANGED <<agentVars, groupVars, call>>

MarshalTestPlan ==
    /\ doc.stage = "tree"
    /\ doc' = [doc EXCEPT !.stage = "json", !.dto = toDTO(doc.root),
                          !.json = Marshal(toDTO(doc.root))]
    /\ UNCHANGED <<agentVars, groupVars, call>>

UnmarshalTestPlan ==
    /\ doc.stage = "json"
    /\ doc' = [doc EXCEPT !.stage = "loaded", !.dto = Unmarshal(doc.json),
                          !.back = fromDTO(Unmarshal(doc.json))]
    /\ UNCHANGED <<agentVars, groupVars, call>>

DtoNext == ToDTO \/ FromDTO \/ MarshalTestPlan \/ UnmarshalTestPlan

\* trees and received documents taken through the codec
DtoSpec == DtoInit /\ [][DtoNext]_vars

\* ---- persistence: round trip, enabled, unknown types -------------------------
\* C18: a tree loaded back from its DTO, directly or through JSON, equals
\* the tree it came from in every field, and serializes to the same DTO.
C18_RoundTripKeepsTree ==
    (doc.stage = "loaded" /\ doc.root # NoElement) =>
        /\ ~doc.back.err
        /\ doc.back.el = doc.root
        /\ toDTO(doc.back.el) = toDTO(doc.root)

RECURSIVE OmitsEnabled(_, _)
\* the enabled field is present exactly for the disabled elements, as false
OmitsEnabled(el, json) ==
    /\ ("enabled" \in json.has) <=> ~el.enabled
    /\ "enabled" \in json.has => json.enabled = FALSE
    /\ \A i \in 1..Len(el.children) : OmitsEnabled(el.children[i], json.children[i])

\* C19: in the serialized form of a tree the enabled field is left out for
\* every enabled element and present, as false, only for disabled ones.
C19_EnabledOmittedWhenTrue ==
    doc.stage = "json" => OmitsEnabled(doc.root, doc.json)

Loadable(dto) == dto.Type \in RegisteredTypes \cup {"TestPlan"}

RECURSIVE KeepsKnown(_, _)
\* el carries the id of dto and, in their order, the loadable children of dto
KeepsKnown(el, dto) ==
    LET kept == SelectSeq(dto.Children, Loadable)
    IN /\ el.id = dto.ID
       /\ el.type = dto.Type
       /\ Len(el.children) = Len(kept)
       /\ \A i \in 1..Len(kept) : KeepsKnown(el.children[i], kept[i])

Received == doc.stage = "loaded" /\ doc.root = NoElement

\* C20: fromDTO fails on a root whose type has no factory and is not
\* "TestPlan"; otherwise it succeeds, every child of an unknown type is left
\* out with its subtree, and the other children stay in their order.
C20_UnknownRootFailsUnknownChildSkipped ==
    Received =>
        IF Loadable(doc.dto) THEN ~doc.back.err /\ KeepsKnown(doc.back.el, doc.dto)
        ELSE doc.back.err

C20_Witness ==
    /\ Received
    /\ ~doc.back.err
    /\ Len(doc.dto.Children) = MaxChildren + 1
    /\ doc.dto.Children[1].Type = "LoopController"
    /\ doc.dto.Children[2].Type = "Mystery"
    /\ Len(doc.dto.Children[2].Children) > 0
    /\ doc.dto.Children[MaxChildren + 1].Type = "LoopController"
    /\ Len(doc.back.el.children) = MaxChildren
    /\ doc.back.el.children[MaxChildren].id = IdAt(MaxChildren + 1)
    /\ \E i \in 1..Len(doc.dto.Children[1].Children) :
        doc.dto.Children[1].Children[i].Type = "Mystery"

\* ---- Context.Substitute --------------------------------------------------------
\* texts are sequences of these characters
Chars == {"$", "{", "}", "a"}

\* containsVar: for i := 0; i < len(s)-3; i++
containsVar(s) == \E i \in 0..(Len(s) - 4) : s[i + 1] = "$" /\ s[i + 2] = "{"

\* fmt.Sprintf("%v", val) of a string value
Sprintf(val) == val

\* the first j >= from with s[j] = '}' (0-based), or -1
CloseFrom(s, from) ==
    IF \E j \in from..(Len(s) - 1) : s[j + 1] = "}"
    THEN CHOOSE j \in from..(Len(s) - 1) :
            /\ s[j + 1] = "}"
            /\ \A k \in from..(j - 1) : s[k + 1] # "}"
    ELSE -1

RECURSIVE expandLoop(_, _, _, _)
\* the loop of expandVariables from the 0-based position i on
expandLoop(s, variables, i, result) ==
    IF i >= Len(s) THEN result
    ELSE LET end == CloseFrom(s, i + 2)
             key == SubSeq(s, i + 3, end)
         IN IF /\ i < Len(s) - 3 /\ s[i + 1] = "$" /\ s[i + 2] = "{"
               /\ end # -1 /\ key \in DOMAIN variables
            THEN expandLoop(s, variables, end + 1, result \o Sprintf(variables[key]))
            ELSE expandLoop(s, variables, i + 1, Append(result, s[i + 1]))

expandVariables(s, variables) == expandLoop(s, variables, 0, <<>>)

Substitute(text, variables) ==
    IF text = <<>> THEN <<>>
    ELSE IF ~containsVar(text) THEN text
    ELSE expandVariables(text, variables)

NoVariables == [k \in {} |-> <<>>]

\* the variables of a context: none, a plain value, a value that is itself a
\* placeholder, and a variable with the empty name
VariableMaps ==
    {NoVariables,
     <<"a">> :> <<"a", "a">>,
     <<"a">> :> <<"$", "{", "a", "}">>,
     <<>> :> <<"a">>}

SubstInit ==
    /\ InitWith(NoClients)
    /\ GroupIdle
    /\ doc = NoDoc
    /\ \E text \in SeqsUpTo(Chars, MaxLen), variables \in VariableMaps :
        call = [fn |-> "Substitute", text |-> text, variables |-> variables,
                returned |-> FALSE, result |-> <<>>]

\* c.Substitute(text)
CallSubstitute ==
    /\ call.fn = "Substitute"
    /\ ~call.returned
    /\ call' = [call EXCEPT !.returned = TRUE,
                            !.result = Substitute(call.text, call.variables)]
    /\ UNCHANGED <<agentVars, groupVars, doc>>

\* texts of every shape substituted under a context
SubstSpec == SubstInit /\ [][CallSubstitute]_vars

HasPlaceholder(s) == \E i \in 1..(Len(s) - 1) : s[i] = "$" /\ s[i + 1] = "{"

\* where the placeholder that opens s closes, or 0 if s opens with none
Closing(s) ==
    IF Len(s) >= 3 /\ s[1] = "$" /\ s[2] = "{" /\ \E j \in 3..Len(s) : s[j] = "}"
    THEN CHOOSE j \in 3..Len(s) : s[j] = "}" /\ \A k \in 3..(j - 1) : s[k] # "}"
    ELSE 0

RECURSIVE Replaced(_, _)
\* one pass from the left: a placeholder of a defined name gives way to the
\* value, which is not read again; everything else is copied
Replaced(s, variables) ==
    IF s = <<>> THEN <<>>
    ELSE IF Closing(s) > 0 /\ SubSeq(s, 3, Closing(s) - 1) \in DOMAIN variables
    THEN variables[SubSeq(s, 3, Closing(s) - 1)]
            \o Replaced(SubSeq(s, Closing(s) + 1, Len(s)), variables)
    ELSE <<Head(s)>> \o Replaced(Tail(s), variables)

VarName == <<"a">>

Body == <<"a", "a">>

ReporterKey == <<"Reporter">>

LimiterKey == <<"Limiter_h">>

\* regexp.Compile and FindStringSubmatch on Body for the expressions used
Expressions == {"", "NOPE(.*)", "a(.*)", "a", "("}

Compiles(expression) == expression # "("

FindStringSubmatch(expression, body) ==
    IF expression = "a(.*)" THEN <<body, Tail(body)>>
    ELSE IF expression = "a" THEN <<SubSeq(body, 1, 1)>>
    ELSE <<>>

\* ExtractJSONPathSimple: "" when the body is not a JSON document
ExtractJSONPathSimple(body, path) == <<>>

\* the parameters a plan entry of a project can define for VarName
Parameters ==
    [Name : {VarName}, Type : {"Static", "Regexp", "JSON"},
     Value : {<<>>, <<"a", "a", "a">>}, Expression : Expressions]

\* context.WithCancel(..) and context.Background(): not a *core.Context
PlainContext == [isContext |-> FALSE]

\* core.NewContext(parent, threadID)
NewContext(parent) ==
    IF parent.isContext
    THEN [Variables |-> parent.Variables,
          ParameterDefinitions |-> parent.ParameterDefinitions]
    ELSE [Variables |-> NoVariables, ParameterDefinitions |-> NoVariables]

\* c.SetVar(key, val)
SetVar(ctx, key, val) == [ctx EXCEPT !.Variables = (key :> val) @@ @]

\* the body of the loop over h.ExtractVars
Extract(ctx, varName, respBody) ==
    IF varName \notin DOMAIN ctx.ParameterDefinitions THEN ctx
    ELSE LET param == ctx.ParameterDefinitions[varName]
             default == IF param.Value # <<>> THEN SetVar(ctx, varName, param.Value)
                        ELSE ctx
             matches == FindStringSubmatch(param.Expression, respBody)
             extractedValue == ExtractJSONPathSimple(respBody, param.Expression)
         IN IF param.Type = "Regexp"
            THEN IF param.Expression = "" THEN default
                 ELSE IF ~Compiles(param.Expression) THEN ctx
                 ELSE IF Len(matches) > 1 THEN SetVar(ctx, varName, matches[2])
                 ELSE IF Len(matches) = 1 THEN SetVar(ctx, varName, matches[1])
                 ELSE default
            ELSE IF param.Type = "JSON"
            THEN IF param.Expression = "" THEN default
                 ELSE IF extractedValue # <<>> THEN SetVar(ctx, varName, extractedValue)
                 ELSE default
            ELSE ctx

RECURSIVE ExtractAll(_, _, _)
ExtractAll(ctx, extractVars, respBody) ==
    IF extractVars = <<>> THEN ctx
    ELSE ExtractAll(Extract(ctx, Head(extractVars), respBody), Tail(extractVars), respBody)

\* Execute from http.NewRequest on: what it leaves behind and returns
Issue(h, ctx, resp) ==
    IF h.bad
    THEN [ctx |-> ctx, requests |-> 0, reports |-> 0, err |-> "other",
          exit |-> "NewRequest"]
    ELSE [ctx |-> IF resp = "ok" THEN ExtractAll(ctx, h.ExtractVars, Body) ELSE ctx,
          requests |-> 1,
          reports |-> IF ReporterKey \in DOMAIN ctx.Variables THEN 1 ELSE 0,
          err |-> "nil", exit |-> "end"]

SkippedButReported(ctx, err, exit) ==
    [ctx |-> ctx, requests |-> 0,
     reports |-> IF ReporterKey \in DOMAIN ctx.Variables THEN 1 ELSE 0,
     err |-> err, exit |-> exit]

\* a return of Execute ahead of the request, and the statement that returns
Skipped(ctx, err, exit) ==
    [ctx |-> ctx, requests |-> 0, reports |-> 0, err |-> err, exit |-> exit]

\* getOrCreateLimiter: without a shared store the limiter is kept in the
\* context under "Limiter_" + h.ID()
WithLimiter(ctx, env) ==
    IF env.SharedLimiterStore \/ LimiterKey \in DOMAIN ctx.Variables THEN ctx
    ELSE SetVar(ctx, LimiterKey, <<"limiter">>)

\* HttpSampler.Execute(ctx); had: the shared store holds the sampler's
\* limiter already; acquire: what a limiter that is not new answers; resp:
\* what the transport answers.  rate.NewLimiter(r, 1) starts with its token,
\* so Allow() of a new limiter succeeds; Wait fails when ctx is done.
ExecuteOnce(h, ctx, env, had, acquire, resp) ==
    LET baseRPS == IF h.TargetRPS = 0 THEN env.DefaultRPS ELSE h.TargetRPS
        targetRPS == baseRPS * env.RPSProfileScale
        new == IF env.SharedLimiterStore THEN ~had
               ELSE LimiterKey \notin DOMAIN ctx.Variables
    IN IF baseRPS > 0 /\ targetRPS <= 0 THEN Skipped(ctx, "nil", "scale")
       ELSE IF targetRPS <= 0 THEN Issue(h, ctx, resp)
       ELSE IF env.RPSNonBlocking
       THEN IF new \/ acquire = "granted" THEN Issue(h, WithLimiter(ctx, env), resp)
            ELSE Skipped(WithLimiter(ctx, env), "nil", "allow")
       ELSE IF acquire = "granted" THEN Issue(h, WithLimiter(ctx, env), resp)
            ELSE Skipped(WithLimiter(ctx, env), "cancel", "wait")

\* what the thread groups put into a worker's context besides the reporter
WorkerEnvs ==
    {[RPSNonBlocking |-> FALSE, SharedLimiterStore |-> FALSE, DefaultRPS |-> 0,
      RPSProfileScale |-> Hundred]}
    \cup [RPSNonBlocking : {TRUE}, SharedLimiterStore : {TRUE},
          DefaultRPS : {0, DefaultRPS}, RPSProfileScale : {0, Hundred}]

Samplers ==
    [TargetRPS : {0, DefaultRPS}, ExtractVars : {<<>>, <<VarName>>}, bad : BOOLEAN]

SamplerInit ==
    /\ InitWith(NoClients)
    /\ GroupIdle
    /\ doc = NoDoc
    /\ \E h \in Samplers, param \in Parameters, env \in WorkerEnvs, seeded \in BOOLEAN,
          had \in BOOLEAN, acquire \in {"granted", "denied"}, resp \in {"ok", "failed"} :
        call = [fn |-> "Execute", pc |-> "go", h |-> h, param |-> param, env |-> env,
                seeded |-> seeded, had |-> had, acquire |-> acquire, resp |-> resp,
                ctx |-> NewContext(PlainContext),
                out |-> Skipped(NewContext(PlainContext), "nil", "none"), later |-> <<>>]

\* the context of a worker at a later iteration: an earlier Execute of the
\* sampler may have left its limiter in it
Iterated(ctx, env, had) == IF had THEN WithLimiter(ctx, env) ELSE ctx

\* the worker of a thread group: tCtx := core.NewContext(ctx, threadID);
\* tCtx.SetVar("Reporter", runner)
GoWorker ==
    /\ call.fn = "Execute" /\ call.pc = "go" /\ ~call.seeded
    /\ call' = [call EXCEPT !.pc = "execute",
                    !.ctx = Iterated(SetVar(NewContext(PlainContext), ReporterKey,
                                            <<"runner">>), call.env, call.had)]
    /\ UNCHANGED <<agentVars, groupVars, doc>>

\* a caller of the package that fills the exported ParameterDefinitions of
\* its context before it executes the sampler
GoSeeded ==
    /\ call.fn = "Execute" /\ call.pc = "go" /\ call.seeded
    /\ call' = [call EXCEPT !.pc = "execute",
                    !.ctx = [Iterated(SetVar(NewContext(PlainContext), ReporterKey,
                                             <<"runner">>), call.env, call.had)
                             EXCEPT !.ParameterDefinitions =
                                        call.param.Name :> call.param]]
    /\ UNCHANGED <<agentVars, groupVars, doc>>

\* exec.Execute(tCtx)
CallExecute ==
    /\ call.fn = "Execute" /\ call.pc = "execute"
    /\ LET out == ExecuteOnce(call.h, call.ctx, call.env, call.had, call.acquire,
                              call.resp)
       IN call' = [call EXCEPT !.pc = "executed", !.out = out, !.ctx = out.ctx]
    /\ UNCHANGED <<agentVars, groupVars, doc>>

\* a later child of the worker substitutes ${a}
SubstituteLater ==
    /\ call.fn = "Execute" /\ call.pc = "executed"
    /\ call' = [call EXCEPT !.pc = "done",
                    !.later = Substitute(<<"$", "{">> \o VarName \o <<"}">>,
                                         call.ctx.Variables)]
    /\ UNCHANGED <<agentVars, groupVars, doc>>

SamplerNext == GoWorker \/ GoSeeded \/ CallExecute \/ SubstituteLater

\* one execution of a sampler in a context, and a substitution after it
SamplerSpec == SamplerInit /\ [][SamplerNext]_vars

\* the plan's parameter is a Regexp whose expression does not match the body
NoMatch(param) ==
    /\ param.Type = "Regexp"
    /\ Compiles(param.Expression)
    /\ FindStringSubmatch(param.Expression, Body) = <<>>

\* C22: when the sampler lists VarName in ExtractVars and the plan defines a
\* Regexp parameter of that name whose expression does not match the body,
\* then after the sampler got its response in a thread-group worker the
\* variable equals the parameter's fallback Value, and a later ${a} in that
\* worker yields the fallback.
C22_FallbackInWorker ==
    (/\ call.fn = "Execute" /\ call.pc = "done" /\ ~call.seeded
     /\ call.out.requests = 1 /\ call.resp = "ok"
     /\ call.h.ExtractVars = <<VarName>> /\ NoMatch(call.param)) =>
        /\ VarName \in DOMAIN call.ctx.Variables
        /\ call.ctx.Variables[VarName] = call.param.Value
        /\ call.later = call.param.Value

\* ---- Server.handleRemoteRestart --------------------------------------------
\* NewServer trims the configured token and command; net/http hands out header
\* values without surrounding blanks, and "" for a missing header
Tokens == {<<>>, <<"t">>, <<"u">>}

ConfiguredCommands == {<<>>, <<"c">>}

\* the request body: none, not a JSON object, or a restartRequest
RestartBodies ==
    {[kind |-> "empty", Command |-> <<>>], [kind |-> "malformed", Command |-> <<>>]}
    \cup [kind : {"json"}, Command : {<<>>, <<Space>>, <<Space, "d">>}]

NoCommand == <<"-">>

Answer(status, command) == [status |-> status, go |-> command]

handleRemoteRestartNoToken(s, r) ==
    LET command == IF TrimSpace(r.body.Command) = <<>> THEN s.restartCommand
                   ELSE TrimSpace(r.body.Command)
    IN IF r.Method # "POST" THEN Answer(405, NoCommand)
       ELSE IF ~s.enableRemoteRestart THEN Answer(403, NoCommand)
       ELSE IF r.body.kind = "malformed" THEN Answer(400, NoCommand)
       ELSE IF command = <<>> THEN Answer(400, NoCommand)
       ELSE Answer(202, command)

\* the status written and the command handed to go executeRestartCommand
handleRemoteRestart(s, r) ==
    LET expectedToken == TrimSpace(s.restartToken)
        token == TrimSpace(r.Token)
        command == IF TrimSpace(r.body.Command) = <<>> THEN s.restartCommand
                   ELSE TrimSpace(r.body.Command)
    IN IF r.Method # "POST" THEN Answer(405, NoCommand)
       ELSE IF ~s.enableRemoteRestart THEN Answer(403, NoCommand)
       ELSE IF expectedToken # <<>> /\ token # expectedToken THEN Answer(401, NoCommand)
       ELSE IF r.body.kind = "malformed" THEN Answer(400, NoCommand)
       ELSE IF command = <<>> THEN Answer(400, NoCommand)
       ELSE Answer(202, command)

RestartInit ==
    /\ InitWith(NoClients)
    /\ GroupIdle
    /\ doc = NoDoc
    /\ \E enable \in BOOLEAN, restartToken \in Tokens, restartCommand \in ConfiguredCommands,
          Method \in {"GET", "POST"}, Token \in Tokens, body \in RestartBodies :
        call = [fn |-> "handleRemoteRestart", pc |-> "request",
                s |-> [enableRemoteRestart |-> enable, restartToken |-> restartToken,
                       restartCommand |-> restartCommand],
                r |-> [Method |-> Method, Token |-> Token, body |-> body],
                answer |-> Answer(0, NoCommand), executed |-> NoCommand]

\* the handler runs to its end
HandleRemoteRestart ==
    /\ call.fn = "handleRemoteRestart" /\ call.pc = "request"
    /\ call' = [call EXCEPT !.answer = handleRemoteRestart(call.s, call.r),
                            !.pc = IF handleRemoteRestart(call.s, call.r).go = NoCommand
                                   THEN "done" ELSE "go"]
    /\ UNCHANGED <<agentVars, groupVars, doc>>

\* go executeRestartCommand(command): the shell runs the trimmed command
ExecuteRestartCommand ==
    /\ call.fn = "handleRemoteRestart" /\ call.pc = "go"
    /\ call' = [call EXCEPT !.pc = "done",
                            !.executed = IF TrimSpace(call.answer.go) = <<>> THEN NoCommand
                                         ELSE TrimSpace(call.answer.go)]
    /\ UNCHANGED <<agentVars, groupVars, doc>>

RestartNext == HandleRemoteRestart \/ ExecuteRestartCommand

\* one request to /admin/restart
RestartSpec == RestartInit /\ [][RestartNext]_vars

Answered == call.fn = "handleRemoteRestart" /\ call.pc # "request"

TokenMatches == call.s.restartToken = <<>> \/ call.r.Token = call.s.restartToken

\* the command the request resolves to: its own, else the configured one
Resolved ==
    IF TrimSpace(call.r.body.Command) # <<>> THEN TrimSpace(call.r.body.Command)
    ELSE call.s.restartCommand

Qualifies ==
    /\ call.r.Method = "POST"
    /\ call.s.enableRemoteRestart
    /\ TokenMatches
    /\ call.r.body.kind # "malformed"
    /\ Resolved # <<>>

\* 403 before 401 before 400
Refusal ==
    IF ~call.s.enableRemoteRestart THEN 403
    ELSE IF ~TokenMatches THEN 401
    ELSE 400

\* C23 as stated: a command is scheduled only by a POST that arrives while
\* remote restart is enabled, carries the configured token when one is
\* configured and resolves to a non-empty command; every other request is
\* answered 403, 401 or 400 in this precedence and executes nothing.
C23_EveryOtherRequestRefused ==
    Answered =>
        /\ call.answer.go # NoCommand => Qualifies
        /\ ~Qualifies =>
            /\ call.answer = Answer(Refusal, NoCommand)
            /\ call.executed = NoCommand

\* C23 (amended): a command is scheduled only by such a POST; a request with
\* another method is answered 405 whatever the configuration, every other
\* POST is answered 403, 401 or 400 in this precedence, and none of them
\* schedules or executes anything.
C23_OnlyQualifiedPostSchedules ==
    Answered =>
        /\ call.answer.go # NoCommand => Qualifies /\ call.answer = Answer(202, Resolved)
        /\ ~Qualifies =>
            /\ call.answer = Answer(IF call.r.Method # "POST" THEN 405 ELSE Refusal,
                                    NoCommand)
            /\ call.executed = NoCommand
        /\ call.executed # NoCommand => call.executed = Resolved

C23_Witness ==
    /\ Answered
    /\ call.s.restartToken # <<>>
    /\ call.executed = <<"d">>

\* ---- LoopController.Execute, IfController.Execute ---------------------------
ControllerChildLists ==
    SeqsUpTo({PlainSampler, BadSampler, PauseChild, DisabledChild}, MaxChildren) \ {<<>>}

Controllers ==
    [kind : {"LoopController"}, Loops : {1, MaxIterations, Infinite}, Condition : {TRUE},
     children : ControllerChildLists]
    \cup [kind : {"IfController"}, Loops : {1}, Condition : BOOLEAN,
          children : ControllerChildLists]

\* what Execute of a child of the controller returns: http.NewRequest fails
\* on a bad sampler, a pause ends with ctx.Err() when the context is done
ChildErrors(child, done) ==
    IF child.kind = "HttpSampler" THEN (IF child.bad THEN {"other"} ELSE {"nil"})
    ELSE IF done THEN {"nil", "cancel"} ELSE {"nil"}

ControllerInit ==
    /\ InitWith(NoClients)
    /\ GroupIdle
    /\ doc = NoDoc
    /\ \E ctl \in Controllers :
        call = [fn |-> "Controller", ctl |-> ctl, done |-> FALSE, pc |-> "head", i |-> 0,
                child |-> 0, execs |-> [c \in 1..Len(ctl.children) |-> 0], ret |-> "nil"]

ControllerReturn(err) == [call EXCEPT !.pc = "returned", !.ret = err]

\* the worker's lifetime ends while the controller executes
ControllerCancel ==
    /\ call.fn = "Controller" /\ call.pc # "returned" /\ ~call.done
    /\ call' = [call EXCEPT !.done = TRUE]
    /\ UNCHANGED <<agentVars, groupVars, doc>>

\* for i := 0; l.Loops == -1 || i < l.Loops; i++ and the test of ctx.Err()
LoopHead ==
    /\ call.fn = "Controller" /\ call.pc = "head" /\ call.ctl.kind = "LoopController"
    /\ call' = IF call.ctl.Loops # Infinite /\ call.i >= call.ctl.Loops
               THEN ControllerReturn("nil")
               ELSE IF call.done THEN ControllerReturn("cancel")
               ELSE [call EXCEPT !.pc = "children", !.child = 1]
    /\ UNCHANGED <<agentVars, groupVars, doc>>

\* if c.Condition(ctx)
IfHead ==
    /\ call.fn = "Controller" /\ call.pc = "head" /\ call.ctl.kind = "IfController"
    /\ call' = IF call.ctl.Condition THEN [call EXCEPT !.pc = "children", !.child = 1]
               ELSE ControllerReturn("nil")
    /\ UNCHANGED <<agentVars, groupVars, doc>>

\* one turn of the loop over GetChildren(): if err != nil { return err }
ControllerChild ==
    /\ call.fn = "Controller" /\ call.pc = "children"
    /\ LET c == call.child
           children == call.ctl.children
       IN IF c > Len(children)
          THEN call' = IF call.ctl.kind = "IfController" THEN ControllerReturn("nil")
                       ELSE [call EXCEPT !.pc = "head",
                                !.i = IF call.ctl.Loops = Infinite THEN @ ELSE @ + 1]
          ELSE IF ~children[c].enabled \/ ~Executable(children[c])
          THEN call' = [call EXCEPT !.child = @ + 1]
          ELSE \E err \in ChildErrors(children[c], call.done) :
                 call' = IF err # "nil"
                         THEN [ControllerReturn(err) EXCEPT !.execs[c] = Count(@)]
                         ELSE [call EXCEPT !.child = @ + 1, !.execs[c] = Count(@)]
    /\ UNCHANGED <<agentVars, groupVars, doc>>

ControllerNext == ControllerCancel \/ LoopHead \/ IfHead \/ ControllerChild

\* one invocation of a controller under a worker's context
ControllerSpec == ControllerInit /\ [][ControllerNext]_vars

\* how often an invocation that is not cut short executes each child
FullRuns ==
    IF call.ctl.kind = "IfController" THEN (IF call.ctl.Condition THEN 1 ELSE 0)
    ELSE call.ctl.Loops

\* C24: an error of a child that is not a cancellation does not end the
\* controller: Execute returns only nil or the cancellation, and when it
\* returns nil every enabled child was executed in every iteration.
C24_OnlyCancellationEndsController ==
    (call.fn = "Controller" /\ call.pc = "returned") =>
        /\ call.ret \in {"nil", "cancel"}
        /\ call.ret = "nil" =>
            \A c \in 1..Len(call.ctl.children) :
                (call.ctl.children[c].enabled /\ Executable(call.ctl.children[c])) =>
                    call.execs[c] = FullRuns

\* ---- a request under a cancelled lifetime -----------------------------------
\* worker w is about to execute an enabled HttpSampler with a well-formed URL
AtRequest(w) ==
    /\ tg.kind = "SimpleThreadGroup"
    /\ threads[w].pc = "exec"
    /\ threads[w].child <= Len(tg.children)
    /\ tg.children[threads[w].child].enabled
    /\ tg.children[threads[w].child].kind = "HttpSampler"
    /\ ~tg.children[threads[w].child].bad

\* C25: when the worker's lifetime is cancelled before or while
\* HttpSampler.Execute issues its request, Execute returns the cancellation
\* and the worker returns instead of going on to its next child.
C25_CancelledRequestEndsWorker ==
    [][\A w \in Workers :
        (parentDone /\ AtRequest(w) /\ threads'[w] # threads[w]) =>
            threads'[w].pc = "returned"]_vars

\* ---- runPlan over the children of the plan root -----------------------------
\* a root child: its type and its enable flag
RootChild(type, enabled) == [type |-> type, enabled |-> enabled]

\* the element types that implement core.ThreadGroup (they have Start)
IsThreadGroup(child) == child.type \in {"SimpleThreadGroup", "RPSThreadGroup"}

RootChildLists ==
    SeqsUpTo({RootChild("SimpleThreadGroup", TRUE), RootChild("RPSThreadGroup", TRUE),
              RootChild("SimpleThreadGroup", FALSE), RootChild("HttpSampler", TRUE)},
             MaxChildren + 1)

\* Server.Start has stored the run and started the goroutine that calls runPlan
RunPlanInit ==
    /\ InitWith(NoClients)
    /\ GroupIdle
    /\ doc = NoDoc
    /\ \E children \in RootChildLists :
        call = [fn |-> "runPlan", children |-> children, pc |-> "range", i |-> 1, wg |-> 0,
                group |-> [c \in 1..Len(children) |-> "none"], peak |-> 0,
                running |-> TRUE, ctxDone |-> FALSE]

InStart(c) == {k \in DOMAIN c.group : c.group[k] = "started"}

RunPlanChildStartsDisabled ==
    /\ call.fn = "runPlan" /\ call.pc = "range"
    /\ LET i == call.i
           started == [call EXCEPT !.i = @ + 1, !.wg = @ + 1, !.group[i] = "started"]
       IN call' = IF i > Len(call.children) THEN [call EXCEPT !.pc = "wait"]
                  ELSE IF ~IsThreadGroup(call.children[i])
                  THEN [call EXCEPT !.i = @ + 1]
                  ELSE [started EXCEPT !.peak = IF Cardinality(InStart(started)) > @
                                                THEN Cardinality(InStart(started)) ELSE @]
    /\ UNCHANGED <<agentVars, groupVars, doc>>

\* one turn of the loop over plan.GetChildren(): skip a disabled child and a
\* child that is no thread group, else wg.Add(1) and go group.Start(ctx, runner)
RunPlanChild ==
    /\ call.fn = "runPlan" /\ call.pc = "range"
    /\ LET i == call.i
           started == [call EXCEPT !.i = @ + 1, !.wg = @ + 1, !.group[i] = "started"]
       IN call' = IF i > Len(call.children) THEN [call EXCEPT !.pc = "wait"]
                  ELSE IF ~call.children[i].enabled \/ ~IsThreadGroup(call.children[i])
                  THEN [call EXCEPT !.i = @ + 1]
                  ELSE [started EXCEPT !.peak = IF Cardinality(InStart(started)) > @
                                                THEN Cardinality(InStart(started)) ELSE @]
    /\ UNCHANGED <<agentVars, groupVars, doc>>

\* group.Start returns in its goroutine: defer wg.Done()
GroupStartReturns(k) ==
    /\ call.fn = "runPlan"
    /\ k \in InStart(call)
    /\ call' = [call EXCEPT !.group[k] = "returned", !.wg = @ - 1]
    /\ UNCHANGED <<agentVars, groupVars, doc>>

\* wg.Wait() returns and so does runPlan
RunPlanReturn ==
    /\ call.fn = "runPlan" /\ call.pc = "wait" /\ call.wg = 0
    /\ call' = [call EXCEPT !.pc = "returned"]
    /\ UNCHANGED <<agentVars, groupVars, doc>>

\* the goroutine of Server.Start after runPlan: cancel(); s.setStopped(stats),
\* with s.stats still the aggregator of this run
AfterRunPlan ==
    /\ call.fn = "runPlan" /\ call.pc = "returned"
    /\ call' = [call EXCEPT !.pc = "stopped", !.ctxDone = TRUE, !.running = FALSE]
    /\ UNCHANGED <<agentVars, groupVars, doc>>

RunPlanNext ==
    \/ RunPlanChild
    \/ \E k \in 1..(MaxChildren + 2) : GroupStartReturns(k)
    \/ RunPlanReturn
    \/ AfterRunPlan

\* one accepted run from the call of runPlan to setStopped
RunPlanSpec == RunPlanInit /\ [][RunPlanNext]_vars

\* the root children runPlan is to start
ToStart == {k \in DOMAIN call.children :
                call.children[k].enabled /\ IsThreadGroup(call.children[k])}

\* C26: runPlan starts exactly the enabled root children that are thread
\* groups, without waiting for one before it starts the next, ignores every
\* other root child and returns only when all started groups have returned;
\* with no such child it has nothing to wait for, and after it the server
\* is not running.
C26_RunPlanStartsEnabledGroups ==
    call.fn = "runPlan" =>
        /\ \A k \in DOMAIN call.group : call.group[k] # "none" => k \in ToStart
        /\ call.pc # "range" => \A k \in ToStart : call.group[k] # "none"
        /\ call.pc = "range" =>
              \A k \in ToStart : k < call.i => call.group[k] # "none"
        /\ call.pc \in {"returned", "stopped"} =>
              \A k \in ToStart : call.group[k] = "returned"
        /\ (call.pc = "wait" /\ ToStart = {}) => call.wg = 0
        /\ call.running <=> call.pc # "stopped"

C26_Witness ==
    /\ call.fn = "runPlan"
    /\ call.pc = "stopped"
    /\ call.peak >= 2
    /\ \E k \in DOMAIN call.children : ~call.children[k].enabled

C26_WitnessNoGroup ==
    /\ call.fn = "runPlan"
    /\ call.pc = "stopped"
    /\ call.children # <<>>
    /\ ToStart = {}

\* ---- runs that overlap --------------------------------------------------------
\* a worker of run r is inside exec.Execute of a plan child
Executing(r) ==
    /\ runPc[r] = "runPlan"
    /\ \E w \in DOMAIN workers[r] : workers[r][w].pc = "exec"

\* C27: at any time the workers of at most one run are executing plan
\* children; a run accepted after /stop has no worker executing while a
\* worker of the stopped run is still executing.
C27_OneRunExecutes ==
    \A r \in Runs, q \in Runs : (r # q) => ~(Executing(r) /\ Executing(q))

\* ---- the profile driver and the clock -----------------------------------------
RECURSIVE BlockTime(_)
\* the time the blocks ask for: every ramp-up and every step duration
BlockTime(blocks) ==
    IF blocks = <<>> THEN 0
    ELSE (IF Head(blocks).RampUp > 0 THEN Head(blocks).RampUp ELSE 0)
         + (IF Head(blocks).StepDuration > 0 THEN Head(blocks).StepDuration ELSE 0)
         + BlockTime(Tail(blocks))

C29_GatedOutDoesNothing ==
    [][(call.fn = "Execute" /\ call.pc = "execute"
        /\ call'.out.exit \in {"scale", "allow"}) =>
            /\ call'.out.requests = 0
            /\ call'.out.reports = 0
            /\ call'.ctx.Variables = call.ctx.Variables
            /\ call'.out.err = "nil"]_vars

C29_WitnessScale ==
    /\ call.fn = "Execute" /\ call.pc = "done"
    /\ call.out.exit = "scale"
    /\ call.seeded /\ call.h.ExtractVars # <<>>

C29_Witness ==
    /\ call.fn = "Execute" /\ call.pc = "done"
    /\ call.out.exit = "allow"
    /\ call.seeded /\ call.h.ExtractVars # <<>>
    /\ call.param.Type = "Regexp" /\ call.param.Expression = "a(.*)"

\* ---- limiterStore.getOrCreate under concurrent workers -------------------------
\* "Limiter_" + h.ID() of the samplers of the group
LimiterKeys == {"Limiter_h1", "Limiter_h2"}

NoCaller == [pc |-> "idle", key |-> "", ret |-> 0]

\* RPSThreadGroup.Start has made the store and handed it to every worker
StoreInit ==
    /\ InitWith(NoClients)
    /\ GroupIdle
    /\ doc = NoDoc
    /\ call = [fn |-> "getOrCreate", mu |-> 0, limiters |-> [k \in LimiterKeys |-> 0],
               made |-> [k \in LimiterKeys |-> 0], next |-> 1,
               given |-> [k \in LimiterKeys |-> {}],
               callers |-> [w \in Workers |-> NoCaller]]

\* a worker's sampler calls getOrCreateLimiter(ctx, key, targetRPS) and the
\* context holds the shared store
StoreCall(w, k) ==
    /\ call.fn = "getOrCreate"
    /\ call.callers[w].pc \in {"idle", "returned"}
    /\ call' = [call EXCEPT !.callers[w] = [pc |-> "lock", key |-> k, ret |-> 0]]
    /\ UNCHANGED <<agentVars, groupVars, doc>>

StoreLockNoMutex(w) ==
    /\ call.fn = "getOrCreate"
    /\ call.callers[w].pc = "lock"
    /\ call' = [call EXCEPT !.mu = w, !.callers[w].pc = "lookup"]
    /\ UNCHANGED <<agentVars, groupVars, doc>>

\* s.mu.Lock()
StoreLock(w) ==
    /\ call.fn = "getOrCreate"
    /\ call.callers[w].pc = "lock"
    /\ call.mu = 0
    /\ call' = [call EXCEPT !.mu = w, !.callers[w].pc = "lookup"]
    /\ UNCHANGED <<agentVars, groupVars, doc>>

\* if limiter, ok := s.limiters[key]; ok { return limiter }
StoreLookup(w) ==
    /\ call.fn = "getOrCreate"
    /\ call.callers[w].pc = "lookup"
    /\ LET k == call.callers[w].key
       IN call' = IF call.limiters[k] # 0
                  THEN [call EXCEPT !.callers[w].pc = "unlock",
                                    !.callers[w].ret = call.limiters[k]]
                  ELSE [call EXCEPT !.callers[w].pc = "create"]
    /\ UNCHANGED <<agentVars, groupVars, doc>>

\* limiter := rate.NewLimiter(..); s.limiters[key] = limiter; return limiter
StoreCreate(w) ==
    /\ call.fn = "getOrCreate"
    /\ call.callers[w].pc = "create"
    /\ LET k == call.callers[w].key
       IN call' = [call EXCEPT !.callers[w].pc = "unlock", !.callers[w].ret = call.next,
                               !.limiters[k] = call.next, !.next = @ + 1,
                               !.made[k] = @ + 1]
    /\ UNCHANGED <<agentVars, groupVars, doc>>

\* defer s.mu.Unlock() and the return to the sampler, which draws from the
\* limiter it was given
StoreUnlock(w) ==
    /\ call.fn = "getOrCreate"
    /\ call.callers[w].pc = "unlock"
    /\ call' = [call EXCEPT !.mu = 0, !.callers[w].pc = "returned",
                            !.given[call.callers[w].key] = @ \cup {call.callers[w].ret}]
    /\ UNCHANGED <<agentVars, groupVars, doc>>

StoreNext ==
    \E w \in Workers :
        \/ \E k \in LimiterKeys : StoreCall(w, k)
        \/ StoreLock(w)
        \/ StoreLookup(w)
        \/ StoreCreate(w)
        \/ StoreUnlock(w)

\* the workers of an RPS thread group on its limiter store
StoreSpec == StoreInit /\ [][StoreNext]_vars

\* C30: concurrent get-or-create calls of the shared store with the same
\* key return the same limiter: per key at most one limiter is ever
\* created, and every worker is given that one.
C30_OneLimiterPerKey ==
    call.fn = "getOrCreate" =>
        \A k \in LimiterKeys :
            /\ call.made[k] <= 1
            /\ Cardinality(call.given[k]) <= 1
            /\ \A w \in Workers :
                  (call.callers[w].key = k /\ call.callers[w].ret # 0) =>
                      call.callers[w].ret = call.limiters[k]

C30_Witness ==
    /\ call.fn = "getOrCreate"
    /\ \E k \in LimiterKeys :
        /\ call.made[k] = 1
        /\ \A w \in Workers :
              call.callers[w] = [pc |-> "returned", key |-> k, ret |-> call.limiters[k]]

\* ---- the steps of the rate gate under concurrent workers ----------------------
\* the values the driver writes to profileScale, in hundredths
ScaleValues == {0, Hundred \div 2, Hundred}

NoGate == [pc |-> "idle", targetRPS |-> 0, limit |-> 0]

\* the workers of an RPS thread group with DefaultRPS and one sampler without
\* a rate of its own; the shared store is empty
GateInit ==
    /\ InitWith(NoClients)
    /\ GroupIdle
    /\ doc = NoDoc
    /\ \E scale \in ScaleValues :
        call = [fn |-> "gate", scale |-> scale, limiter |-> [made |-> FALSE, limit |-> 0],
                gates |-> [w \in Workers |-> NoGate]]

\* profileScale.set(v) by the driver
GateScaleSet(v) ==
    /\ call.fn = "gate"
    /\ call.scale # v
    /\ call' = [call EXCEPT !.scale = v]
    /\ UNCHANGED <<agentVars, groupVars, doc>>

\* profileScale := getProfileScale(ctx); targetRPS := baseRPS * profileScale;
\* return nil when the base is positive and the target is not
GateRead(w) ==
    /\ call.fn = "gate"
    /\ call.gates[w].pc \in {"idle", "acquired"}
    /\ call' = IF DefaultRPS * call.scale <= 0
               THEN [call EXCEPT !.gates[w] = NoGate]
               ELSE [call EXCEPT !.gates[w] =
                        [pc |-> "get", targetRPS |-> DefaultRPS * call.scale, limit |-> 0]]
    /\ UNCHANGED <<agentVars, groupVars, doc>>

\* limiter := getOrCreateLimiter(ctx, key, targetRPS)
GateGetOrCreate(w) ==
    /\ call.fn = "gate"
    /\ call.gates[w].pc = "get"
    /\ call' = [call EXCEPT !.gates[w].pc = "limit",
                    !.limiter = IF @.made THEN @
                                ELSE [made |-> TRUE, limit |-> call.gates[w].targetRPS]]
    /\ UNCHANGED <<agentVars, groupVars, doc>>

\* if float64(limiter.Limit()) != targetRPS { limiter.SetLimit(..) }
GateSetLimit(w) ==
    /\ call.fn = "gate"
    /\ call.gates[w].pc = "limit"
    /\ call' = [call EXCEPT !.gates[w].pc = "allow",
                    !.limiter.limit = call.gates[w].targetRPS]
    /\ UNCHANGED <<agentVars, groupVars, doc>>

\* limiter.Allow(): the acquisition, at the rate the limiter has now
GateAllow(w) ==
    /\ call.fn = "gate"
    /\ call.gates[w].pc = "allow"
    /\ call' = [call EXCEPT !.gates[w].pc = "acquired",
                    !.gates[w].limit = call.limiter.limit]
    /\ UNCHANGED <<agentVars, groupVars, doc>>

GateNext ==
    \/ \E v \in ScaleValues : GateScaleSet(v)
    \/ \E w \in Workers :
        GateRead(w) \/ GateGetOrCreate(w) \/ GateSetLimit(w) \/ GateAllow(w)

\* the rate gate of HttpSampler.Execute, statement by statement
GateSpec == GateInit /\ [][GateNext]_vars

\* C31: an invocation with an effective rate above zero acquires from a
\* limiter whose rate is that invocation's effective rate, whatever the
\* other workers and the driver do meanwhile.
C31_AcquiresAtOwnRate ==
    call.fn = "gate" =>
        \A w \in Workers :
            call.gates[w].pc = "acquired" =>
                call.gates[w].limit = call.gates[w].targetRPS

\* ---- the profile scale inside a block ----------------------------------------
\* profiles that ramp up, ramp down, overshoot 100 percent and name a
\* negative percentage
ProfileBlockLists ==
    {<<RPSProfileBlock(2, 1, 50), RPSProfileBlock(3, 0, 20)>>,
     <<RPSProfileBlock(2, 0, 150), RPSProfileBlock(2, 1, -50)>>,
     <<RPSProfileBlock(0, 1, 1), RPSProfileBlock(3, 1, 30), RPSProfileBlock(0, 1, 80)>>}

ProfileInit ==
    /\ InitWith(NoClients)
    /\ \E b \in ProfileBlockLists, g \in {0, 1} :
        RPSStartCalled(RPSThreadGroup(1, DefaultRPS, b, g, <<PauseChild>>))
    /\ obs = NoObs
    /\ DocIdle

\* an RPSThreadGroup whose profile has ramps, started once
ProfileSpec == ProfileInit /\ [][RPSNext]_vars

InBlock == driver.pc \in {"block", "ramp", "rampWait", "hold"} /\
           driver.block <= Len(tg.ProfileBlocks)

Between(v, a, b) == (a <= v /\ v <= b) \/ (b <= v /\ v <= a)

\* C32: inside a profile block the values written to profileScale go
\* monotonically from the scale at the end of the previous block (0 for the
\* first block) to the normalized target of the block, never past the target
\* and never below zero.
C32_ScaleMonotoneInBlock ==
    /\ [](driver.pc = "block" /\ InBlock => profileScale = driver.currentScale)
    /\ [](driver.pc = "block" /\ driver.block = 1 => profileScale = 0)
    /\ [][InBlock /\ driver.pc \in {"block", "ramp"} /\
          (profileScale' # profileScale \/ driver'.pc \in {"rampWait", "hold"}) =>
            /\ profileScale' >= 0
            /\ Between(profileScale', driver.currentScale, Target(driver.block))
            /\ Between(profileScale', profileScale, Target(driver.block))]_vars

\* a ramp-down has written a value strictly between the two ends
C32_Witness ==
    /\ InBlock
    /\ driver.pc = "rampWait"
    /\ Target(driver.block) < profileScale
    /\ profileScale < driver.currentScale

\* the target above 100 percent has been written at the end of a ramp-up
C32_WitnessTarget ==
    /\ InBlock
    /\ driver.pc = "block"
    /\ driver.block = 2
    /\ tg.ProfileBlocks[1].RampUp > 0
    /\ profileScale = Target(1)
    /\ profileScale > Hundred

\* ---- execution of a tree of children ------------------------------------------
\* an element with its subtree; Condition is the value the function of an
\* IfController returns
Node(kind, enabled, bad, loops, condition, children) ==
    [kind |-> kind, enabled |-> enabled, bad |-> bad, Loops |-> loops,
     Condition |-> condition, children |-> children]

Leaf(kind, enabled, bad) == Node(kind, enabled, bad, 0, TRUE, <<>>)

\* core.Executable: the samplers and the controllers
HasExecute(node) ==
    node.kind \in {"HttpSampler", "PauseController", "LoopController", "IfController"}

TreeLeaves ==
    {Leaf("HttpSampler", TRUE, FALSE), Leaf("HttpSampler", TRUE, TRUE),
     Leaf("HttpSampler", FALSE, FALSE), Leaf("PauseController", TRUE, FALSE),
     Leaf("SimpleThreadGroup", TRUE, FALSE)}

\* controllers below the root: enabled and disabled ones over enabled leaves
TreeControllers ==
    {Node("LoopController", e, FALSE, MaxIterations, TRUE, c) :
        e \in BOOLEAN,
        c \in {<<Leaf("HttpSampler", TRUE, FALSE), Leaf("PauseController", TRUE, FALSE)>>,
               <<Leaf("HttpSampler", FALSE, FALSE), Leaf("HttpSampler", TRUE, FALSE)>>}}
    \cup {Node("IfController", e, FALSE, 1, TRUE, <<Leaf("HttpSampler", TRUE, FALSE)>>) :
            e \in BOOLEAN}

TreeRoots ==
    {Node(k, TRUE, FALSE, l, TRUE, c) :
        k \in {"SimpleThreadGroup", "LoopController"}, l \in {1, MaxIterations},
        c \in SeqsUpTo(TreeLeaves \cup TreeControllers, MaxChildren) \ {<<>>}}
    \cup {Node("IfController", TRUE, FALSE, 1, b, c) :
            b \in BOOLEAN,
            c \in SeqsUpTo(TreeLeaves \cup TreeControllers, MaxChildren) \ {<<>>}}

RECURSIVE At(_, _)
\* the element at a path of child indexes below node
At(node, path) ==
    IF path = <<>> THEN node ELSE At(node.children[Head(path)], Tail(path))

Frame(path) == [path |-> path, i |-> 0, child |-> 0, ran |-> <<>>]

\* a worker of a thread group before its first iteration, or a controller
\* whose Execute has just been called
TreeInit ==
    /\ InitWith(NoClients)
    /\ GroupIdle
    /\ doc = NoDoc
    /\ \E root \in TreeRoots :
        call = [fn |-> "Tree", root |-> root, done |-> FALSE, stack |-> <<Frame(<<>>)>>,
                pending |-> "none", executed |-> {}]

Top == call.stack[Len(call.stack)]

\* return err from the innermost invocation
Pop(err) == [call EXCEPT !.stack = SubSeq(@, 1, Len(@) - 1), !.pending = err]

InTop(f) == [call EXCEPT !.stack[Len(call.stack)] = f]

\* the worker's lifetime is cancelled
TreeCancel ==
    /\ call.fn = "Tree" /\ call.stack # <<>> /\ ~call.done
    /\ call' = [call EXCEPT !.done = TRUE]
    /\ UNCHANGED <<agentVars, groupVars, doc>>

\* the head of the outer loop of the innermost invocation: the loop
\* condition and the test of the context (Loop, worker), the condition (If)
TreeHead ==
    /\ call.fn = "Tree" /\ call.stack # <<>> /\ call.pending = "none"
    /\ Top.child = 0
    /\ LET node == At(call.root, Top.path)
           begin == InTop([Top EXCEPT !.child = 1, !.ran = <<>>])
       IN call' = IF node.kind = "IfController"
                  THEN (IF node.Condition THEN begin ELSE Pop("nil"))
                  ELSE IF node.Loops # Infinite /\ Top.i >= node.Loops THEN Pop("nil")
                  ELSE IF call.done THEN Pop("cancel")
                  ELSE begin
    /\ UNCHANGED <<agentVars, groupVars, doc>>

TreeChildAll ==
    /\ call.fn = "Tree" /\ call.stack # <<>> /\ call.pending = "none"
    /\ Top.child > 0
    /\ LET node == At(call.root, Top.path)
           c == Top.child
           ran == InTop([Top EXCEPT !.ran = Append(@, c)])
       IN IF c > Len(node.children)
          THEN call' = IF node.kind = "IfController" THEN Pop("nil")
                       ELSE InTop([Top EXCEPT !.child = 0, !.i = @ + 1])
          ELSE IF ~HasExecute(node.children[c])
          THEN call' = InTop([Top EXCEPT !.child = @ + 1])
          ELSE IF node.children[c].children = <<>>
          THEN \E err \in ChildErrors(node.children[c], call.done) :
                 call' = [ran EXCEPT !.pending = err,
                                     !.executed = @ \cup {Append(Top.path, c)}]
          ELSE call' = [ran EXCEPT !.stack = Append(@, Frame(Append(Top.path, c))),
                                   !.executed = @ \cup {Append(Top.path, c)}]
    /\ UNCHANGED <<agentVars, groupVars, doc>>

\* one turn of the loop over GetChildren() up to the call of Execute
TreeChild ==
    /\ call.fn = "Tree" /\ call.stack # <<>> /\ call.pending = "none"
    /\ Top.child > 0
    /\ LET node == At(call.root, Top.path)
           c == Top.child
           ran == InTop([Top EXCEPT !.ran = Append(@, c)])
       IN IF c > Len(node.children)
          THEN call' = IF node.kind = "IfController" THEN Pop("nil")
                       ELSE InTop([Top EXCEPT !.child = 0, !.i = @ + 1])
          ELSE IF ~node.children[c].enabled \/ ~HasExecute(node.children[c])
          THEN call' = InTop([Top EXCEPT !.child = @ + 1])
          ELSE IF node.children[c].children = <<>>
          THEN \E err \in ChildErrors(node.children[c], call.done) :
                 call' = [ran EXCEPT !.pending = err,
                                     !.executed = @ \cup {Append(Top.path, c)}]
          ELSE call' = [ran EXCEPT !.stack = Append(@, Frame(Append(Top.path, c))),
                                   !.executed = @ \cup {Append(Top.path, c)}]
    /\ UNCHANGED <<agentVars, groupVars, doc>>

\* Execute of a child has returned err: a controller returns every error, a
\* worker returns when the error comes with a cancelled context
TreeReturn ==
    /\ call.fn = "Tree" /\ call.stack # <<>> /\ call.pending # "none"
    /\ LET node == At(call.root, Top.path)
           next == [InTop([Top EXCEPT !.child = @ + 1]) EXCEPT !.pending = "none"]
       IN call' = IF call.pending = "nil" THEN next
                  ELSE IF node.kind = "SimpleThreadGroup"
                  THEN (IF call.done THEN Pop(call.pending) ELSE next)
                  ELSE Pop(call.pending)
    /\ UNCHANGED <<agentVars, groupVars, doc>>

TreeNext == TreeCancel \/ TreeHead \/ TreeChild \/ TreeReturn

\* one worker of a thread group, or one invocation of a controller, over a
\* tree of children
TreeSpec == TreeInit /\ [][TreeNext]_vars

RECURSIVE Declared(_, _)
\* the indexes up to n of the enabled executable children, in declared order
Declared(children, n) ==
    IF n = 0 THEN <<>>
    ELSE IF children[n].enabled /\ HasExecute(children[n])
    THEN Append(Declared(children, n - 1), n)
    ELSE Declared(children, n - 1)

\* the number of children the invocation in frame k has gone past
Passed(k) ==
    LET f == call.stack[k]
        n == IF k < Len(call.stack) \/ call.pending # "none" THEN f.child
             ELSE f.child - 1
        len == Len(At(call.root, f.path).children)
    IN IF n > len THEN len ELSE n

\* C33: in every invocation of a controller and every iteration of a worker
\* the children executed so far are the enabled executable children gone
\* past, in declared order (all of them when the iteration completes), and
\* no element at or below a disabled child is ever executed.
C33_ChildrenInOrderDisabledSkipped ==
    call.fn = "Tree" =>
        /\ \A k \in 1..Len(call.stack) :
            call.stack[k].child > 0 =>
                call.stack[k].ran =
                    Declared(At(call.root, call.stack[k].path).children, Passed(k))
        /\ \A path \in call.executed :
            \A n \in 1..Len(path) : At(call.root, SubSeq(path, 1, n)).enabled

\* an iteration of a nested controller is complete, next to a disabled
\* controller whose children are enabled
C33_Witness ==
    /\ call.fn = "Tree"
    /\ Len(call.stack) = 2
    /\ Top.child > Len(At(call.root, Top.path).children)
    /\ Len(Top.ran) = 2
    /\ \E c \in 1..Len(call.root.children) :
        /\ ~call.root.children[c].enabled
        /\ call.root.children[c].children # <<>>
        /\ c < Head(Top.path)

\* ---- the iterations of a LoopController --------------------------------------
LoopReturned ==
    call.fn = "Controller" /\ call.ctl.kind = "LoopController" /\ call.pc = "returned"

\* C34: LoopController.Execute with Loops = L >= 0 and no cancellation executes
\* its enabled children L times each and returns nil; with Loops = -1 it
\* returns only the cancellation error, after the context was cancelled; with
\* the context cancelled it begins no further iteration.
C34_LoopRunsLoopsTimes ==
    /\ [](LoopReturned /\ call.ctl.Loops # Infinite /\ ~call.done =>
            /\ call.ret = "nil"
            /\ \A c \in 1..Len(call.ctl.children) :
                (call.ctl.children[c].enabled /\ Executable(call.ctl.children[c])) =>
                    call.execs[c] = call.ctl.Loops)
    /\ [](LoopReturned /\ call.ctl.Loops = Infinite => call.done /\ call.ret = "cancel")
    /\ [][call.fn = "Controller" /\ call.ctl.kind = "LoopController" /\ call.done /\
          call.pc = "head" => call'.pc # "children"]_vars

\* ---- Start of a thread group built from a plan DTO ----------------------------
\* the props of the DTO of the group: without "Users", or with a number
UsersProps == {EmptyProps} \cup {("Users" :> Val("float64", n)) : n \in -2..MaxWorkers}

UsersInit ==
    /\ InitWith(NoClients)
    /\ GroupIdle
    /\ doc = NoDoc
    /\ \E kind \in {"SimpleThreadGroup", "RPSThreadGroup"}, props \in UsersProps :
        call = [fn |-> "Users", kind |-> kind, props |-> props, pc |-> "factory", Users |-> 0,
                i |-> 0, wg |-> 0, active |-> 0, stop |-> FALSE, executed |-> FALSE]

\* the registered factory builds the group from the props
UsersFactory ==
    /\ call.fn = "Users" /\ call.pc = "factory"
    /\ call' = [call EXCEPT !.pc = "add",
                    !.Users = Factory(call.kind, "tg", call.props).Users]
    /\ UNCHANGED <<agentVars, groupVars, doc>>

\* wg.Add(tg.Users): a negative WaitGroup counter panics, and no caller of
\* Start recovers
UsersAdd ==
    /\ call.fn = "Users" /\ call.pc = "add"
    /\ call' = IF call.Users < 0 THEN [call EXCEPT !.pc = "panic"]
               ELSE [call EXCEPT !.pc = "spawn", !.wg = call.Users]
    /\ UNCHANGED <<agentVars, groupVars, doc>>

\* for i := 0; i < tg.Users; i++ { go func ... }
UsersSpawn ==
    /\ call.fn = "Users" /\ call.pc = "spawn"
    /\ call' = IF call.i < call.Users
               THEN [call EXCEPT !.i = @ + 1, !.active = @ + 1]
               ELSE [call EXCEPT !.pc = "wait"]
    /\ UNCHANGED <<agentVars, groupVars, doc>>

\* a worker executes the children of the group in a turn of its loop
UsersExecute ==
    /\ call.fn = "Users" /\ call.pc \in {"spawn", "wait"}
    /\ call.active > 0 /\ ~call.stop
    /\ call' = [call EXCEPT !.executed = TRUE]
    /\ UNCHANGED <<agentVars, groupVars, doc>>

\* the iterations are used up, stop is requested or the context is cancelled
UsersStop ==
    /\ call.fn = "Users" /\ call.pc \in {"spawn", "wait"}
    /\ ~call.stop
    /\ call' = [call EXCEPT !.stop = TRUE]
    /\ UNCHANGED <<agentVars, groupVars, doc>>

\* a worker leaves its loop: defer wg.Done()
UsersDone ==
    /\ call.fn = "Users" /\ call.pc \in {"spawn", "wait"}
    /\ call.active > 0 /\ call.stop
    /\ call' = [call EXCEPT !.active = @ - 1, !.wg = @ - 1]
    /\ UNCHANGED <<agentVars, groupVars, doc>>

\* wg.Wait() and the return of Start
UsersWait ==
    /\ call.fn = "Users" /\ call.pc = "wait"
    /\ call.wg = 0
    /\ call' = [call EXCEPT !.pc = "returned"]
    /\ UNCHANGED <<agentVars, groupVars, doc>>

UsersNext ==
    UsersFactory \/ UsersAdd \/ UsersSpawn \/ UsersExecute \/ UsersStop \/ UsersDone \/
    UsersWait

\* Start of a thread group whose Users comes from the props of a DTO
UsersSpec == UsersInit /\ [][UsersNext]_vars

\* C35: Start of a Simple or RPS thread group whose Users value in the plan
\* DTO is zero or negative does not panic and executes no child.
C35_NoUsersNoPanic ==
    (call.fn = "Users" /\ "Users" \in DOMAIN call.props /\ call.props["Users"].v <= 0) =>
        call.pc # "panic" /\ ~call.executed

\* ---- ids of the elements built by the constructors --------------------------
\* the clock is read in halves of a microsecond
ClockPerMicro == 2

\* "id_" + time.Now().Format("20060102150405.000000"): the reading down to the
\* microsecond
GenerateID(now) == <<"id_", now \div ClockPerMicro>>

RECURSIVE AllIds(_)
\* the ids of a tree: the root, then each child with its subtree
AllIds(tree) ==
    IF tree.children = <<>> THEN <<tree.id>>
    ELSE <<tree.id>> \o AllIds([id |-> tree.children[1].id,
                                children |-> tree.children[1].children])
                     \o Tail(AllIds([tree EXCEPT !.children = Tail(@)]))

\* the root of a plan has just been constructed
BuildInit ==
    /\ InitWith(NoClients)
    /\ GroupIdle
    /\ doc = NoDoc
    /\ call = [fn |-> "Build", now |-> 0,
               tree |-> [id |-> GenerateID(0), children |-> <<>>]]

\* the clock advances between two statements
BuildTick ==
    /\ call.fn = "Build"
    /\ call.now < MaxTime * ClockPerMicro
    /\ call' = [call EXCEPT !.now = @ + 1]
    /\ UNCHANGED <<agentVars, groupVars, doc>>

\* root.AddChild(NewX(name))
BuildAddChild ==
    /\ call.fn = "Build"
    /\ Len(AllIds(call.tree)) <= MaxChildren + 1
    /\ call' = [call EXCEPT !.tree.children =
                    Append(@, [id |-> GenerateID(call.now), children |-> <<>>])]
    /\ UNCHANGED <<agentVars, groupVars, doc>>

\* child.AddChild(NewX(name)) for the k-th child of the root
BuildAddGrandchild(k) ==
    /\ call.fn = "Build"
    /\ Len(AllIds(call.tree)) <= MaxChildren + 1
    /\ call' = [call EXCEPT !.tree.children[k].children =
                    Append(@, [id |-> GenerateID(call.now), children |-> <<>>])]
    /\ UNCHANGED <<agentVars, groupVars, doc>>

\* root.RemoveChild(childID): the children with another id stay, in order
BuildRemoveChild(childID) ==
    /\ call.fn = "Build"
    /\ call' = [call EXCEPT !.tree.children =
                    SelectSeq(@, LAMBDA c : c.id # childID)]
    /\ UNCHANGED <<agentVars, groupVars, doc>>

BuildNext ==
    \/ BuildTick
    \/ BuildAddChild
    \/ \E k \in 1..Len(call.tree.children) : BuildAddGrandchild(k)
    \/ \E k \in 1..Len(call.tree.children) : BuildRemoveChild(call.tree.children[k].id)

\* a tree built element by element with the constructors
BuildSpec == BuildInit /\ [][BuildNext]_vars

\* C36: the ids of the elements of a tree built by the constructors are
\* pairwise distinct, also when elements are created within one reading of
\* the clock.
C36_IdsDistinct ==
    call.fn = "Build" =>
        \A i, j \in 1..Len(AllIds(call.tree)) :
            i # j => AllIds(call.tree)[i] # AllIds(call.tree)[j]

\* ---- requests the control plane rejects --------------------------------------
StatusMethodNotAllowed == 405

Methods == {"GET", "POST"}

Respond(op, code) ==
    /\ lastResp' = [op |-> op, code |-> code]
    /\ UNCHANGED <<serverVars, ctxDone, runPc, planOf, workers, agg, hist, stopPc, clients,
                   groupVars, docVars>>

MethodNotAllowedStops(op) ==
    /\ lastResp' = [op |-> op, code |-> StatusMethodNotAllowed]
    /\ running' = FALSE
    /\ UNCHANGED <<cancel, stats, currentPlanName, ctxDone, runPc, planOf, workers, agg, hist,
                   stopPc, clients, groupVars, docVars>>

\* handleRun and handleStop with a method other than POST, handleMetrics
\* with a method other than GET
MethodNotAllowed(op) == Respond(op, StatusMethodNotAllowed)

\* GET /healthz, or another method on it
HandleHealthz(method) ==
    Respond("healthz", IF method # "GET" THEN StatusMethodNotAllowed ELSE StatusOK)

\* /admin/restart on an agent that was started without remote restart
HandleRestart(method) ==
    Respond("restart",
            handleRemoteRestart([enableRemoteRestart |-> FALSE, restartToken |-> <<>>,
                                 restartCommand |-> <<>>],
                                [Method |-> method, Token |-> <<>>,
                                 body |-> [kind |-> "empty", Command |-> <<>>]]).status)

RequestNext ==
    \/ Next
    \/ \E op \in {"run", "stop", "metrics"} : MethodNotAllowed(op)
    \/ \E method \in Methods : HandleHealthz(method)
    \/ \E method \in Methods : HandleRestart(method)

\* clients that start one run
RequestClients == [bodies |-> {Malformed} \cup PausePlans, runs |-> 1]

RequestInit == InitWith(RequestClients) /\ GroupIdle /\ DocIdle

\* the control plane under clients that also use wrong methods
RequestSpec == RequestInit /\ [][RequestNext]_vars

\* C37: a request answered 405, or a /run answered 400, leaves the running
\* flag, the cancel function, the stored aggregator and the workers of the
\* runs as they are.
C37_RejectedRequestChangesNothing ==
    [][(lastResp' # lastResp /\ lastResp'.code \in {StatusMethodNotAllowed, StatusBadRequest})
        => UNCHANGED <<running, cancel, stats, agg, workers, ctxDone, runPc>>]_vars

\* a wrong method was answered while the worker of a run was executing
C37_Witness ==
    /\ lastResp.code = StatusMethodNotAllowed
    /\ running
    /\ \E r \in Runs : Executing(r)

\* a malformed plan was answered while a run was in progress
C37_WitnessMalformed ==
    /\ lastResp = [op |-> "run", code |-> StatusBadRequest]
    /\ running
    /\ \E r \in Runs : Executing(r)

\* ---- the metrics text and its parser ------------------------------------------
\* a text is a sequence of lines, a line a sequence of characters; metric
\* names, the label key and "Total" are words that hold no special character
Backslash == "\\"
DoubleQuote == "\""
PromChars == {"a", Space, ",", "=", "{", "}", DoubleQuote}
TotalName == <<"Total">>
PromNames == SeqsUpTo(PromChars, 2) \ {<<>>}

\* the byte a name begins with, for sort.Strings
FirstByte(name) ==
    CASE Head(name) = Space -> 32
      [] Head(name) = DoubleQuote -> 34
      [] Head(name) = "," -> 44
      [] Head(name) = "=" -> 61
      [] Head(name) = "Total" -> 84
      [] Head(name) = "a" -> 97
      [] Head(name) = "{" -> 123
      [] Head(name) = "}" -> 125

\* sort.Strings over the keys of a snapshot of two samplers
SortNames(S) ==
    LET first == CHOOSE x \in S : \A y \in S : FirstByte(x) <= FirstByte(y)
    IN IF S = {} THEN <<>>
       ELSE IF S = {first} THEN <<first>>
       ELSE <<first, CHOOSE y \in S : y # first>>

RECURSIVE QuoteBody(_)
QuoteBody(s) ==
    IF s = <<>> THEN <<>>
    ELSE (IF Head(s) \in {DoubleQuote, Backslash} THEN <<Backslash, Head(s)>>
          ELSE <<Head(s)>>) \o QuoteBody(Tail(s))

\* strconv.Quote
StrconvQuote(s) == <<DoubleQuote>> \o QuoteBody(s) \o <<DoubleQuote>>

Failed == [ok |-> FALSE, v |-> <<>>]

RECURSIVE UnquoteBody(_)
UnquoteBody(s) ==
    IF s = <<>> THEN [ok |-> TRUE, v |-> <<>>]
    ELSE IF Head(s) = DoubleQuote THEN Failed
    ELSE IF Head(s) = Backslash
    THEN IF Len(s) < 2 \/ s[2] \notin {DoubleQuote, Backslash} THEN Failed
         ELSE LET rest == UnquoteBody(Tail(Tail(s)))
              IN IF rest.ok THEN [ok |-> TRUE, v |-> <<s[2]>> \o rest.v] ELSE Failed
    ELSE LET rest == UnquoteBody(Tail(s))
         IN IF rest.ok THEN [ok |-> TRUE, v |-> <<Head(s)>> \o rest.v] ELSE Failed

\* strconv.Unquote of a double-quoted string
StrconvUnquote(val) ==
    IF Len(val) < 2 \/ Head(val) # DoubleQuote \/ val[Len(val)] # DoubleQuote THEN Failed
    ELSE UnquoteBody(SubSeq(val, 2, Len(val) - 1))

Digits == <<"0", "1", "2">>

\* fmt's %d of a count
FormatInt(v) == Digits[v + 1]

\* strconv.ParseFloat of a field
ParseFloat(field) ==
    IF Len(field) = 1 /\ \E i \in 1..Len(Digits) : Digits[i] = field[1]
    THEN [ok |-> TRUE, v |-> (CHOOSE i \in 1..Len(Digits) : Digits[i] = field[1]) - 1]
    ELSE [ok |-> FALSE, v |-> 0]

SamplerLine(metric, sampler, value) ==
    <<metric, "{", "sampler", "=">> \o StrconvQuote(sampler) \o <<"}", Space, FormatInt(value)>>

\* the lines renderPrometheusMetrics writes for the run and the samplers
RenderLines(isRunning, snapshot) ==
    LET samplers == SortNames(DOMAIN snapshot)
        lines(n) == <<SamplerLine("perfolizer_errors", n, snapshot[n].Errors),
                      SamplerLine("perfolizer_requests_total", n, snapshot[n].TotalRequests),
                      SamplerLine("perfolizer_errors_total", n, snapshot[n].TotalErrors)>>
    IN <<<<"#", Space, "HELP", Space, "perfolizer_test_running">>,
         <<"perfolizer_test_running", Space, FormatInt(IF isRunning THEN 1 ELSE 0)>>>>
       \o lines(samplers[1]) \o (IF Len(samplers) > 1 THEN lines(samplers[2]) ELSE <<>>)

RECURSIVE Split(_, _)
\* strings.Split(s, sep) for a separator of one character
Split(s, sep) ==
    IF \A i \in 1..Len(s) : s[i] # sep THEN <<s>>
    ELSE LET i == CHOOSE k \in 1..Len(s) : s[k] = sep /\ \A j \in 1..(k - 1) : s[j] # sep
         IN <<SubSeq(s, 1, i - 1)>> \o Split(SubSeq(s, i + 1, Len(s)), sep)

\* strings.Fields
Fields(line) == SelectSeq(Split(line, Space), LAMBDA f : f # <<>>)

NoLabels == [k \in {} |-> <<>>]

RECURSIVE LabelsOf(_, _)
\* the loop over the pairs of the label set
LabelsOf(pairs, labels) ==
    IF pairs = <<>> THEN [err |-> FALSE, labels |-> labels]
    ELSE LET pair == TrimSpace(Head(pairs))
             kv == Split(pair, "=")
             key == TrimSpace(kv[1])
             val == TrimSpace(SubSeq(pair, Len(kv[1]) + 2, Len(pair)))
         IN IF pair = <<>> \/ Len(kv) < 2 THEN LabelsOf(Tail(pairs), labels)
            ELSE IF ~StrconvUnquote(val).ok THEN [err |-> TRUE, labels |-> NoLabels]
            ELSE LabelsOf(Tail(pairs),
                          [k \in DOMAIN labels \cup {key} |->
                              IF k = key THEN StrconvUnquote(val).v ELSE labels[k]])

parseMetricWithLabels(spec) ==
    LET opens == {i \in 1..Len(spec) : spec[i] = "{"}
        closes == {i \in 1..Len(spec) : spec[i] = "}"}
        open == CHOOSE i \in opens : \A j \in opens : i <= j
        close == CHOOSE i \in closes : \A j \in closes : i >= j
        parsed == LabelsOf(Split(SubSeq(spec, open + 1, close - 1), ","), NoLabels)
    IN IF opens = {} THEN [err |-> FALSE, name |-> spec, labels |-> NoLabels]
       ELSE IF closes = {} \/ close < open THEN [err |-> TRUE, name |-> <<>>, labels |-> NoLabels]
       ELSE IF close = open + 1
       THEN [err |-> FALSE, name |-> SubSeq(spec, 1, open - 1), labels |-> NoLabels]
       ELSE [err |-> parsed.err, name |-> SubSeq(spec, 1, open - 1), labels |-> parsed.labels]

PromMetric(errors, totalRequests, totalErrors) ==
    [Errors |-> errors, TotalRequests |-> totalRequests, TotalErrors |-> totalErrors]

NoMetrics == [k \in {} |-> PromMetric(0, 0, 0)]

\* one turn of the scanner loop of parsePrometheusSnapshot
ScanLine(out, line) ==
    LET parts == Fields(TrimSpace(line))
        value == ParseFloat(parts[2])
        spec == parseMetricWithLabels(parts[1])
        sampler == IF <<"sampler">> \in DOMAIN spec.labels THEN spec.labels[<<"sampler">>]
                   ELSE <<>>
        m == IF sampler \in DOMAIN out.metrics THEN out.metrics[sampler]
             ELSE PromMetric(0, 0, 0)
        set == CASE spec.name = <<"perfolizer_errors">> -> [m EXCEPT !.Errors = value.v]
                 [] spec.name = <<"perfolizer_requests_total">> ->
                        [m EXCEPT !.TotalRequests = value.v]
                 [] spec.name = <<"perfolizer_errors_total">> ->
                        [m EXCEPT !.TotalErrors = value.v]
                 [] OTHER -> m
    IN IF TrimSpace(line) = <<>> \/ Head(TrimSpace(line)) = "#" THEN out
       ELSE IF Len(parts) < 2 THEN out
       ELSE IF ~value.ok THEN out
       ELSE IF spec.err THEN out
       ELSE IF spec.name = <<"perfolizer_test_running">>
       THEN [out EXCEPT !.Running = value.v > 0]
       ELSE IF sampler = <<>> THEN out
       ELSE [out EXCEPT !.metrics =
                [k \in DOMAIN out.metrics \cup {sampler} |->
                    IF k = sampler THEN set ELSE out.metrics[k]]]

\* the server has a snapshot of the Total and of one sampler
PromInit ==
    /\ InitWith(NoClients)
    /\ GroupIdle
    /\ doc = NoDoc
    /\ \E isRunning \in BOOLEAN, name \in PromNames,
          m \in {PromMetric(0, 1, 0), PromMetric(1, 2, 1)} :
        call = [fn |-> "Prom", pc |-> "render", running |-> isRunning,
                snapshot |-> (TotalName :> m) @@ (name :> m),
                text |-> <<>>,
                out |-> [Running |-> FALSE, metrics |-> NoMetrics]]

\* handleMetrics writes the text
PromRender ==
    /\ call.fn = "Prom" /\ call.pc = "render"
    /\ call' = [call EXCEPT !.pc = "scan", !.text = RenderLines(call.running, call.snapshot)]
    /\ UNCHANGED <<agentVars, groupVars, doc>>

\* for scanner.Scan()
PromScan ==
    /\ call.fn = "Prom" /\ call.pc = "scan" /\ call.text # <<>>
    /\ call' = [call EXCEPT !.text = Tail(@), !.out = ScanLine(call.out, Head(call.text))]
    /\ UNCHANGED <<agentVars, groupVars, doc>>

\* after the loop: the Total entry is added when it is missing
PromReturn ==
    /\ call.fn = "Prom" /\ call.pc = "scan" /\ call.text = <<>>
    /\ call' = [call EXCEPT !.pc = "parsed",
                    !.out.metrics = IF TotalName \in DOMAIN @ THEN @
                                    ELSE (TotalName :> PromMetric(0, 0, 0)) @@ @]
    /\ UNCHANGED <<agentVars, groupVars, doc>>

PromNext == PromRender \/ PromScan \/ PromReturn

\* the text of GET /metrics read back by parsePrometheusSnapshot
PromSpec == PromInit /\ [][PromNext]_vars

\* C38: parsePrometheusSnapshot of the text of renderPrometheusMetrics gives
\* the running flag and, under every sampler name, the Errors, TotalRequests
\* and TotalErrors of the snapshot.
C38_RenderParseRoundTrip ==
    (call.fn = "Prom" /\ call.pc = "parsed") =>
        /\ call.out.Running = call.running
        /\ \A name \in DOMAIN call.snapshot :
            /\ name \in DOMAIN call.out.metrics
            /\ call.out.metrics[name] = call.snapshot[name]

\* ---- hostMetricsCollector.collect ---------------------------------------------
\* the fields of a raw snapshot that enter a percentage; times and counters
\* are whole numbers, the clock counts the same unit as DiskIOTimeSeconds
RawSnapshot(usage, idle, times, user, system, idleTotal, total, used, ioTime, io, util, utilPct) ==
    [CPUUsageAvailable |-> usage, CPUIdlePercent |-> idle, CPUUserPercent |-> Hundred - idle,
     CPUSystemPercent |-> 0,
     CPUTimesAvailable |-> times, CPUUserTotal |-> user, CPUSystemTotal |-> system,
     CPUIdleTotal |-> idleTotal, CPUTotal |-> total,
     MemoryUsedPercent |-> used, SwapUsedPercent |-> used, DiskUsedPercent |-> used,
     HasDiskIOTime |-> ioTime, DiskIOTimeSeconds |-> io,
     DiskUtilizationAvailable |-> util, DiskUtilizationPercent |-> utilPct]

\* a backend that reports percentages of its own, in and out of range
UsageSnapshots ==
    {RawSnapshot(TRUE, idle, FALSE, 0, 0, 0, 0, used, FALSE, 0, TRUE, idle) :
        idle \in {-10, 40, 150}, used \in {50}}
    \cup {RawSnapshot(TRUE, 40, FALSE, 0, 0, 0, 0, used, FALSE, 0, FALSE, 0) :
            used \in {-10, 150}}

\* a backend that reports cumulative CPU times and IO-busy time only; the
\* counters may stand still or start again from zero
TimesSnapshots ==
    {RawSnapshot(FALSE, 0, TRUE, user, 0, idleTotal, user + idleTotal, 50, TRUE, io, FALSE, 0) :
        user \in {1, 2}, idleTotal \in {1, 3}, io \in {1, 3}}

\* a backend that reports nothing about the CPU and the disk
NoSnapshot == RawSnapshot(FALSE, 0, FALSE, 0, 0, 0, 0, 50, FALSE, 0, FALSE, 0)

RawSnapshots == UsageSnapshots \cup TimesSnapshots \cup {NoSnapshot}

clampPercent(value) == IF value < 0 THEN 0 ELSE IF value > Hundred THEN Hundred ELSE value

clampNonNegative(value) == IF value < 0 THEN 0 ELSE value

\* the zero value of hostMetricsSnapshot
ZeroHost ==
    [CPUAvailable |-> FALSE, CPUIdlePercent |-> 0, CPUUserPercent |-> 0,
     CPUSystemPercent |-> 0, CPUUtilizationPct |-> 0, MemoryUsedPercent |-> 0,
     SwapUsedPercent |-> 0, DiskUsedPercent |-> 0, HasDiskIOTime |-> FALSE,
     DiskIOTimeSeconds |-> 0, HasDiskUtilization |-> FALSE, DiskUtilizationPct |-> 0]

\* newHostMetricsCollector
NewCollector ==
    [prevCPUUserTotal |-> 0, prevCPUSystemTotal |-> 0, prevCPUIdleTotal |-> 0,
     prevCPUTotal |-> 0, hasPrevCPU |-> FALSE, prevDiskIOTimeSeconds |-> 0,
     prevDiskAt |-> 0, hasPrevDisk |-> FALSE]

Recorded(c, raw) ==
    [c EXCEPT !.prevCPUUserTotal = raw.CPUUserTotal, !.prevCPUSystemTotal = raw.CPUSystemTotal,
              !.prevCPUIdleTotal = raw.CPUIdleTotal, !.prevCPUTotal = raw.CPUTotal,
              !.hasPrevCPU = TRUE]

applyCPUKeepsFirst(c, snapshot, raw) ==
    LET deltaTotal == raw.CPUTotal - c.prevCPUTotal
        userDelta == clampNonNegative(raw.CPUUserTotal - c.prevCPUUserTotal)
        systemDelta == clampNonNegative(raw.CPUSystemTotal - c.prevCPUSystemTotal)
        idleDelta == clampNonNegative(raw.CPUIdleTotal - c.prevCPUIdleTotal)
        idle == clampPercent((idleDelta * Hundred) \div deltaTotal)
    IN IF raw.CPUUsageAvailable
       THEN [c |-> c,
             snapshot |-> [snapshot EXCEPT !.CPUAvailable = TRUE,
                              !.CPUIdlePercent = clampPercent(raw.CPUIdlePercent),
                              !.CPUUserPercent = clampPercent(raw.CPUUserPercent),
                              !.CPUSystemPercent = clampPercent(raw.CPUSystemPercent),
                              !.CPUUtilizationPct =
                                  clampPercent(Hundred - clampPercent(raw.CPUIdlePercent))]]
       ELSE IF ~raw.CPUTimesAvailable THEN [c |-> c, snapshot |-> snapshot]
       ELSE IF c.hasPrevCPU /\ deltaTotal > 0
       THEN [c |-> c,
             snapshot |-> [snapshot EXCEPT !.CPUAvailable = TRUE,
                              !.CPUUserPercent = clampPercent((userDelta * Hundred) \div deltaTotal),
                              !.CPUSystemPercent =
                                  clampPercent((systemDelta * Hundred) \div deltaTotal),
                              !.CPUIdlePercent = idle,
                              !.CPUUtilizationPct = clampPercent(Hundred - idle)]]
       ELSE [c |-> IF c.hasPrevCPU THEN c ELSE Recorded(c, raw), snapshot |-> snapshot]

\* the collector and the snapshot after applyCPU
applyCPU(c, snapshot, raw) ==
    LET deltaTotal == raw.CPUTotal - c.prevCPUTotal
        userDelta == clampNonNegative(raw.CPUUserTotal - c.prevCPUUserTotal)
        systemDelta == clampNonNegative(raw.CPUSystemTotal - c.prevCPUSystemTotal)
        idleDelta == clampNonNegative(raw.CPUIdleTotal - c.prevCPUIdleTotal)
        idle == clampPercent((idleDelta * Hundred) \div deltaTotal)
    IN IF raw.CPUUsageAvailable
       THEN [c |-> c,
             snapshot |-> [snapshot EXCEPT !.CPUAvailable = TRUE,
                              !.CPUIdlePercent = clampPercent(raw.CPUIdlePercent),
                              !.CPUUserPercent = clampPercent(raw.CPUUserPercent),
                              !.CPUSystemPercent = clampPercent(raw.CPUSystemPercent),
                              !.CPUUtilizationPct =
                                  clampPercent(Hundred - clampPercent(raw.CPUIdlePercent))]]
       ELSE IF ~raw.CPUTimesAvailable THEN [c |-> c, snapshot |-> snapshot]
       ELSE IF c.hasPrevCPU /\ deltaTotal > 0
       THEN [c |-> Recorded(c, raw),
             snapshot |-> [snapshot EXCEPT !.CPUAvailable = TRUE,
                              !.CPUUserPercent = clampPercent((userDelta * Hundred) \div deltaTotal),
                              !.CPUSystemPercent =
                                  clampPercent((systemDelta * Hundred) \div deltaTotal),
                              !.CPUIdlePercent = idle,
                              !.CPUUtilizationPct = clampPercent(Hundred - idle)]]
       ELSE [c |-> Recorded(c, raw), snapshot |-> snapshot]

applyMemory(snapshot, raw) ==
    [snapshot EXCEPT !.MemoryUsedPercent = raw.MemoryUsedPercent,
                     !.SwapUsedPercent = raw.SwapUsedPercent]

\* the collector and the snapshot after applyDisk
applyDisk(c, snapshot, raw, now) ==
    LET direct == IF raw.DiskUtilizationAvailable
                  THEN [snapshot EXCEPT !.HasDiskUtilization = TRUE,
                            !.DiskUtilizationPct = clampPercent(raw.DiskUtilizationPercent)]
                  ELSE snapshot
        used == [direct EXCEPT !.DiskUsedPercent = raw.DiskUsedPercent]
        elapsed == now - c.prevDiskAt
        deltaBusy == raw.DiskIOTimeSeconds - c.prevDiskIOTimeSeconds
    IN IF ~raw.HasDiskIOTime THEN [c |-> c, snapshot |-> used]
       ELSE [c |-> [c EXCEPT !.prevDiskIOTimeSeconds = raw.DiskIOTimeSeconds,
                             !.prevDiskAt = now, !.hasPrevDisk = TRUE],
             snapshot |->
                IF c.hasPrevDisk /\ now > c.prevDiskAt /\
                   raw.DiskIOTimeSeconds >= c.prevDiskIOTimeSeconds /\ elapsed > 0
                THEN [used EXCEPT !.HasDiskIOTime = TRUE,
                                  !.DiskIOTimeSeconds = raw.DiskIOTimeSeconds,
                                  !.HasDiskUtilization = TRUE,
                                  !.DiskUtilizationPct =
                                      clampPercent((deltaBusy * Hundred) \div elapsed)]
                ELSE [used EXCEPT !.HasDiskIOTime = TRUE,
                                  !.DiskIOTimeSeconds = raw.DiskIOTimeSeconds]]

\* collect: the three steps under the collector's mutex
collect(c, raw, now) ==
    LET cpu == applyCPU(c, ZeroHost, raw)
    IN applyDisk(cpu.c, applyMemory(cpu.snapshot, raw), raw, now)

\* the collector of a server that has just been created
HostInit ==
    /\ InitWith(NoClients)
    /\ GroupIdle
    /\ doc = NoDoc
    /\ call = [fn |-> "collect", c |-> NewCollector, collects |-> 0,
               snapshot |-> ZeroHost, raw |-> NoSnapshot, last |-> NoSnapshot, lastAt |-> 0,
               at |-> 0, onlyTimes |-> TRUE]

\* handleMetrics calls collect, which reads the raw snapshot and the clock:
\* the reading is the one of the collect before, or later; last and lastAt
\* keep the raw snapshot and the time of the collect before this one
HostCollect(raw, now) ==
    /\ call.fn = "collect"
    /\ call.collects < MaxTime
    /\ call' = [call EXCEPT !.c = collect(call.c, raw, now).c,
                            !.snapshot = collect(call.c, raw, now).snapshot,
                            !.collects = @ + 1,
                            !.raw = raw, !.at = now,
                            !.last = call.raw, !.lastAt = call.at,
                            !.onlyTimes = @ /\ raw \in TimesSnapshots]
    /\ UNCHANGED <<agentVars, groupVars, doc>>

HostNext == \E raw \in RawSnapshots, now \in {call.at, call.at + 1} : HostCollect(raw, now)

\* the host metrics of an agent over its first requests
HostSpec == HostInit /\ [][HostNext]_vars

InPercentRange(value) == 0 <= value /\ value <= Hundred

\* C39: every percentage of a snapshot returned by collect lies in
\* [0, 100], whatever the raw snapshot of the backend holds.
C39_PercentagesInRange ==
    (call.fn = "collect" /\ call.collects > 0) =>
        /\ InPercentRange(call.snapshot.CPUIdlePercent)
        /\ InPercentRange(call.snapshot.CPUUserPercent)
        /\ InPercentRange(call.snapshot.CPUSystemPercent)
        /\ InPercentRange(call.snapshot.CPUUtilizationPct)
        /\ InPercentRange(call.snapshot.MemoryUsedPercent)
        /\ InPercentRange(call.snapshot.SwapUsedPercent)
        /\ InPercentRange(call.snapshot.DiskUsedPercent)
        /\ InPercentRange(call.snapshot.DiskUtilizationPct)

\* C40: with a backend that supplies cumulative CPU times and IO-busy time
\* only, the first collect reports no CPU and no disk utilization; every later
\* collect reports the CPU percentages exactly when the total CPU time grew
\* since the collect before it, and the disk utilization exactly when the
\* IO-busy time did not fall and the clock advanced, both computed from the
\* difference to that collect.
C40_DeltasFromPrecedingCollect ==
    (call.fn = "collect" /\ call.collects > 0 /\ call.onlyTimes) =>
        LET deltaTotal == call.raw.CPUTotal - call.last.CPUTotal
            idle == clampPercent(
                        (clampNonNegative(call.raw.CPUIdleTotal - call.last.CPUIdleTotal)
                            * Hundred) \div deltaTotal)
            elapsed == call.at - call.lastAt
            deltaBusy == call.raw.DiskIOTimeSeconds - call.last.DiskIOTimeSeconds
        IN IF call.collects = 1
           THEN ~call.snapshot.CPUAvailable /\ ~call.snapshot.HasDiskUtilization
           ELSE /\ call.snapshot.CPUAvailable = (deltaTotal > 0)
                /\ deltaTotal > 0 =>
                    /\ call.snapshot.CPUIdlePercent = idle
                    /\ call.snapshot.CPUUtilizationPct = Hundred - idle
                    /\ call.snapshot.CPUUserPercent =
                        clampPercent(
                            (clampNonNegative(call.raw.CPUUserTotal - call.last.CPUUserTotal)
                                * Hundred) \div deltaTotal)
                /\ call.snapshot.HasDiskUtilization = (deltaBusy >= 0 /\ elapsed > 0)
                /\ (deltaBusy >= 0 /\ elapsed > 0) =>
                    call.snapshot.DiskUtilizationPct =
                        clampPercent((deltaBusy * Hundred) \div elapsed)

\* the third collect reports a CPU utilization and a disk utilization that
\* was clamped
C40_Witness ==
    /\ call.fn = "collect" /\ call.onlyTimes
    /\ call.collects = 3
    /\ call.snapshot.CPUAvailable
    /\ call.snapshot.CPUUtilizationPct > 0
    /\ call.snapshot.HasDiskUtilization
    /\ call.snapshot.DiskUtilizationPct = Hundred

====
